---------------------------- MODULE Spec2Model ----------------------------
(***************************************************************************)
(* TieredBundleExporter of scripts/generate-fixtures.py: classification of *)
(* chunks into tiers, directory aggregates, parent maps, per-tier layout   *)
(* and the exported bundle.                                                *)
(*                                                                         *)
(* Conventions.  Python strings are TLA+ strings.  An attribute that the   *)
(* code only tests for truth (`hasattr(c, a) and c.a`) is a string, with   *)
(* "" standing for absent, None and empty alike.  An attribute whose mere  *)
(* presence matters (`hasattr(c, a)`) is <<>> when absent and <<v>> when   *)
(* present.  A dict whose insertion order is observable is a sequence of   *)
(* [key, val] entries in insertion order.  A list of chunk objects is a    *)
(* sequence of references, a reference being the chunk's index in          *)
(* self.chunks.  Coordinates are kept symbolic: a position records how it  *)
(* was first placed and how many integration steps moved it.               *)
(***************************************************************************)
EXTENDS Integers, Sequences, FiniteSets, TLC

(***************************************************************************)
(* Bounds of the model.                                                    *)
(***************************************************************************)
MaxChunks == 3   \* longest input list of chunks
MaxRuns == 2     \* export() calls a caller makes on one exporter

(***************************************************************************)
(* String primitives (str.split, str.join, str.startswith, str.lower).     *)
(***************************************************************************)
Char(s, i) == SubSeq(s, i, i)

RECURSIVE SplitAt(_, _, _, _)
SplitAt(s, sep, i, cur) ==
    IF i > Len(s) THEN <<cur>>
    ELSE IF Char(s, i) = sep THEN <<cur>> \o SplitAt(s, sep, i + 1, "")
    ELSE SplitAt(s, sep, i + 1, cur \o Char(s, i))

Split(s, sep) == SplitAt(s, sep, 1, "")

RECURSIVE Join(_, _)
Join(parts, sep) ==
    IF Len(parts) = 0 THEN ""
    ELSE IF Len(parts) = 1 THEN parts[1]
    ELSE parts[1] \o sep \o Join(Tail(parts), sep)

StartsWith(s, p) == Len(s) >= Len(p) /\ SubSeq(s, 1, Len(p)) = p

Contains(s, c) == \E i \in 1..Len(s) : Char(s, i) = c

\* sub in s
HasSubstring(s, sub) ==
    \E i \in 1..(Len(s) - Len(sub) + 1) : SubSeq(s, i, i + Len(sub) - 1) = sub

UpperLetters == "ABCDEFGHIJKLMNOPQRSTUVWXYZ"
LowerLetters == "abcdefghijklmnopqrstuvwxyz"

\* str.lower() on one character: ASCII capitals map to their small letters
LowerTable == [c \in {Char(UpperLetters, i) : i \in 1..26} |->
                  Char(LowerLetters,
                       CHOOSE i \in 1..26 : Char(UpperLetters, i) = c)]

LowerChar(c) == IF c \in DOMAIN LowerTable THEN LowerTable[c] ELSE c

RECURSIVE Lower(_)
Lower(s) == IF s = "" THEN "" ELSE LowerChar(Head(s)) \o Lower(Tail(s))

Last(seq) == seq[Len(seq)]

\* s.rsplit(sep, 1)[0]
RSplitHead(s, sep) ==
    LET parts == Split(s, sep)
    IN  Join(SubSeq(parts, 1, Len(parts) - 1), sep)

(***************************************************************************)
(* KIND_TO_TIER                                                            *)
(***************************************************************************)
GalaxyKinds ==
    {"module", "namespace", "package", "import_statement", "export_statement",
     "import_from_statement", "use_declaration", "mod_item"}

SystemKinds ==
    {"class", "interface", "struct", "enum", "trait", "impl", "function",
     "class_declaration", "class_definition", "function_declaration",
     "function_definition", "arrow_function", "function_expression",
     "decorated_definition", "struct_item", "enum_item", "impl_item",
     "trait_item", "function_item"}

PlanetKinds ==
    {"method", "constructor", "property", "field", "variable", "constant",
     "parameter", "method_definition", "variable_declarator",
     "lexical_declaration", "assignment_expression", "assignment",
     "let_declaration", "const_item"}

KIND_TO_TIER(k) ==
    IF k \in GalaxyKinds THEN <<"galaxy">>
    ELSE IF k \in SystemKinds THEN <<"system">>
    ELSE IF k \in PlanetKinds THEN <<"planet">>
    ELSE <<>>

\* mutant: the galaxy tier is laid out before the universe tier
TierNames_GalaxyFirst == <<"galaxy", "universe", "system", "planet">>

TierNames == <<"universe", "galaxy", "system", "planet">>
ChunkTiers == {"galaxy", "system", "planet"}

(***************************************************************************)
(* Attribute helpers of the exporter.                                      *)
(***************************************************************************)
\* mutant: the kind is looked up as written, without kind.lower()
_get_tier_for_kind_CaseSensitive(kind) ==
    LET hit == KIND_TO_TIER(IF kind # "" THEN kind ELSE "unknown")
    IN  IF hit # <<>> THEN hit[1] ELSE "planet"

_get_tier_for_kind(kind) ==
    LET kind_lower == IF kind # "" THEN Lower(kind) ELSE "unknown"
        hit == KIND_TO_TIER(kind_lower)
    IN  IF hit # <<>> THEN hit[1] ELSE "planet"

_get_chunk_kind(chunk) ==
    IF chunk.node_type # <<>>
    THEN (IF chunk.node_type[1] # "" THEN chunk.node_type[1] ELSE "unknown")
    ELSE IF chunk.kind # <<>>
    THEN (IF chunk.kind[1] # "" THEN chunk.kind[1] ELSE "unknown")
    ELSE "unknown"

_get_chunk_id(chunk) ==
    IF chunk.chunk_id # "" THEN chunk.chunk_id
    ELSE IF chunk.node_id # "" THEN chunk.node_id
    ELSE "unknown"

AnonPrefix == "anon@"

\* the glyphs of lines 172 and 174, U+2B07 and U+2B06, written in ASCII
ImportGlyph == "{U+2B07}"
ExportGlyph == "{U+2B06}"

\* dict.get(key, []) on the metadata of a chunk
MetaList(metadata, key) ==
    IF key \in DOMAIN metadata THEN metadata[key] ELSE <<>>

\* lines 143-149: the loop over reversed(qualified_route), from entry i down;
\* <<name>> when an entry returns, <<>> when the loop falls through
RECURSIVE RouteName(_, _)
RouteName(route, i) ==
    IF i = 0 THEN <<>>
    ELSE LET route_part == route[i]
             name == Last(Split(route_part, ":"))
         IN  IF Contains(route_part, ":")
             THEN (IF name # "" /\ ~StartsWith(name, AnonPrefix)
                   THEN <<name>> ELSE RouteName(route, i - 1))
             ELSE IF route_part # "" /\ ~StartsWith(route_part, AnonPrefix)
             THEN <<route_part>>
             ELSE RouteName(route, i - 1)

\* lines 152-163: <<name>> when the metadata block returns, else <<>>
MetadataName(metadata) ==
    LET exports == MetaList(metadata, "exports")
        imports == MetaList(metadata, "imports")
    IN  IF DOMAIN metadata = {} THEN <<>>
        ELSE IF exports # <<>> /\ exports[1] # "" THEN <<exports[1]>>
        ELSE IF imports # <<>> /\ imports[1] # ""
        THEN (IF Contains(imports[1], "/")
              THEN <<Last(Split(imports[1], "/"))>> ELSE <<imports[1]>>)
        ELSE <<>>

\* lines 166-176: <<name>> when the chunk has file_path and node_type
FileName(chunk) ==
    LET file_name == Last(Split(chunk.file_path, "/"))
        base_name == IF Contains(file_name, ".") THEN RSplitHead(file_name, ".")
                     ELSE file_name
        node_type == IF chunk.node_type[1] # "" THEN chunk.node_type[1]
                     ELSE "unknown"
    IN  IF chunk.node_type = <<>> THEN <<>>
        ELSE IF HasSubstring(Lower(node_type), "import")
        THEN <<ImportGlyph \o base_name>>
        ELSE IF HasSubstring(Lower(node_type), "export")
        THEN <<ExportGlyph \o base_name>>
        ELSE <<base_name>>

_get_chunk_name(chunk) ==
    LET routed == RouteName(chunk.qualified_route, Len(chunk.qualified_route))
        meta == MetadataName(chunk.metadata)
        filed == FileName(chunk)
        chunk_id == _get_chunk_id(chunk)
    IN  IF chunk.name # "" /\ ~StartsWith(chunk.name, AnonPrefix) THEN chunk.name
        ELSE IF routed # <<>> THEN routed[1]
        ELSE IF meta # <<>> THEN meta[1]
        ELSE IF filed # <<>> THEN filed[1]
        ELSE IF chunk_id # "" /\ Contains(chunk_id, ":")
        THEN Last(Split(chunk_id, ":"))
        ELSE IF chunk_id # "" THEN chunk_id
        ELSE "unnamed"

_get_rel_source_id(rel) ==
    IF rel.source_chunk_id # <<>> THEN rel.source_chunk_id[1]
    ELSE IF rel.source_id # <<>> THEN rel.source_id[1]
    ELSE "unknown"

_get_rel_target_id(rel) ==
    IF rel.target_chunk_id # <<>> THEN rel.target_chunk_id[1]
    ELSE IF rel.target_id # <<>> THEN rel.target_id[1]
    ELSE "unknown"

_get_rel_kind(rel) ==
    IF rel.relationship_type # <<>> THEN rel.relationship_type[1]
    ELSE IF rel.kind # <<>> THEN rel.kind[1]
    ELSE "related"

DefaultDepth == 2
MaxDepth == 3    \* largest depth _extract_directory is applied with

Min(a, b) == IF a <= b THEN a ELSE b
Max(a, b) == IF a >= b THEN a ELSE b

\* mutant: the first `depth` directory segments are kept, not the last
_extract_directory_FirstSegments(file_path, depth) ==
    LET parts == Split(file_path, "/")
        dirs == SubSeq(parts, 1, Len(parts) - 1)
        dir_parts == SelectSeq(dirs, LAMBDA p : p # "" /\ ~StartsWith(p, "."))
    IN  IF Len(dir_parts) > 0
        THEN Join(SubSeq(dir_parts, 1, Min(depth, Len(dir_parts))), "/")
        ELSE "root"

_extract_directory(file_path, depth) ==
    LET parts == Split(file_path, "/")
        dirs == SubSeq(parts, 1, Len(parts) - 1)
        dir_parts == SelectSeq(dirs, LAMBDA p : p # "" /\ ~StartsWith(p, "."))
    IN  IF Len(dir_parts) > 0
        THEN LET k == Min(depth, Len(dir_parts))
                 path_parts == IF k = 0 THEN dir_parts
                               ELSE SubSeq(dir_parts, Len(dir_parts) - k + 1,
                                           Len(dir_parts))
             IN  IF Len(path_parts) > 0 THEN Join(path_parts, "/") ELSE "root"
        ELSE "root"

DirKey(chunk) == _extract_directory(chunk.file_path, DefaultDepth)


(***************************************************************************)
(* State of one TieredBundleExporter and of the caller driving it.         *)
(***************************************************************************)
VARIABLES
    chunks,          \* self.chunks: the input nodes
    relationships,   \* self.relationships: the input edges
    tiers,           \* self.tiers
    dir_to_chunks,   \* self.dir_to_chunks (ordered dict)
    file_to_chunks,  \* self.file_to_chunks (ordered dict)
    parent_maps,     \* self.parent_maps
    positions,       \* self.positions
    iterations_run,  \* force iterations executed by the latest layout of a tier
    layout_mode,     \* strategy taken by the latest layout of a tier
    bundle,          \* content of the output file: <<>> or <<bundle>>
    pc,              \* position inside export()
    tier_idx,        \* tier that compute_positions lays out next
    runs,            \* export() calls started on this exporter
    force_loop       \* locals of the force loop of one tier, stepped singly

vars == <<chunks, relationships, tiers, dir_to_chunks, file_to_chunks,
          parent_maps, positions, iterations_run, layout_mode, bundle, pc,
          tier_idx, runs, force_loop>>

EmptyDict == [k \in {} |-> k]

Refs == [i \in 1..Len(chunks) |-> i]

ChunkId(r) == _get_chunk_id(chunks[r])

TierOf(r) == _get_tier_for_kind(_get_chunk_kind(chunks[r]))

(***************************************************************************)
(* The dict left by `for i in lo..hi: d[K[i]] = V[i]` on an empty d: a     *)
(* later assignment to a key replaces an earlier one.  The range is halved *)
(* so that the recursion stays shallow on long lists.                      *)
(***************************************************************************)
RECURSIVE Assigned(_, _, _, _)
Assigned(K, V, lo, hi) ==
    IF lo > hi THEN EmptyDict
    ELSE IF lo = hi THEN K[lo] :> V[lo]
    ELSE LET mid == (lo + hi) \div 2
         IN  Assigned(K, V, mid + 1, hi) @@ Assigned(K, V, lo, mid)

\* d after `for i in 1..Len(K): d[K[i]] = V[i]`
AssignAll(d, K, V) == Assigned(K, V, 1, Len(K)) @@ d

(***************************************************************************)
(* d[key(i)].append(i) for i = 1..Len(keyseq), d a defaultdict(list): the  *)
(* keys already in d keep their place, new keys follow in order of first   *)
(* appearance.  first[i] and last[i] are the first and the last index that *)
(* carries the key of index i.                                             *)
(***************************************************************************)
GroupAppend(d, keyseq) ==
    LET keys == keyseq \o <<>>
        n == Len(keys)
        idx == [i \in 1..n |-> i]
        old == {d[j].key : j \in 1..Len(d)}
        lastOf == AssignAll(EmptyDict, keys, idx)
        firstOf == AssignAll(EmptyDict, [i \in 1..n |-> keys[n + 1 - i]],
                             [i \in 1..n |-> n + 1 - i])
        first == [i \in 1..n |-> firstOf[keys[i]]] \o <<>>
        last == [i \in 1..n |-> lastOf[keys[i]]] \o <<>>
        firsts == SelectSeq(idx, LAMBDA i : first[i] = i /\ keys[i] \notin old)
        members(i) == IF last[i] = first[i] THEN <<i>>
                      ELSE SelectSeq(idx, LAMBDA j : keys[j] = keys[i])
        added(k) == IF k \in DOMAIN firstOf THEN members(firstOf[k]) ELSE <<>>
    IN  [j \in 1..Len(d) |->
            [key |-> d[j].key, val |-> d[j].val \o added(d[j].key)]]
        \o [j \in 1..Len(firsts) |->
            [key |-> keys[firsts[j]], val |-> members(firsts[j])]]

DictKeys(d) == {d[j].key : j \in 1..Len(d)}

DictGet(d, k) == d[CHOOSE j \in 1..Len(d) : d[j].key = k].val

\* mutant: node_count counts the member files instead of the chunks
Aggregate_CountsFiles(dir_path, members) ==
    [node_id |-> "dir:" \o dir_path,
     name |-> IF Contains(dir_path, "/") THEN Last(Split(dir_path, "/"))
              ELSE dir_path,
     kind |-> "directory",
     file |-> dir_path,
     full_path |-> dir_path,
     node_count |-> Cardinality({chunks[members[i]].file_path :
                                    i \in 1..Len(members)}),
     is_aggregate |-> TRUE,
     member_files |-> {chunks[members[i]].file_path : i \in 1..Len(members)}]

Aggregate(dir_path, members) ==
    [node_id |-> "dir:" \o dir_path,
     name |-> IF Contains(dir_path, "/") THEN Last(Split(dir_path, "/"))
              ELSE dir_path,
     kind |-> "directory",
     file |-> dir_path,
     full_path |-> dir_path,
     node_count |-> Len(members),
     is_aggregate |-> TRUE,
     member_files |-> {chunks[members[i]].file_path : i \in 1..Len(members)}]

\* mutant: the chunks without directory get no aggregate
_create_directory_aggregates_SkipsRoot(universe, dirs) ==
    LET named == SelectSeq(dirs, LAMBDA d : d.key # "root")
    IN  universe \o [j \in 1..Len(named) |->
                        Aggregate(named[j].key, named[j].val)]

_create_directory_aggregates(universe, dirs) ==
    universe \o [j \in 1..Len(dirs) |-> Aggregate(dirs[j].key, dirs[j].val)]

TiersAfterBuild(dirs) ==
    LET tier == [r \in 1..Len(chunks) |-> TierOf(r)] \o <<>>
    IN  [t \in {"universe", "galaxy", "system", "planet"} |->
            IF t = "universe"
            THEN _create_directory_aggregates(tiers[t], dirs)
            ELSE tiers[t] \o SelectSeq(Refs, LAMBDA r : tier[r] = t)]

\* mutant: the kind found for a chunk is stored back on the chunk
build_tiers_StoresKind ==
    /\ pc = "idle"
    /\ runs < MaxRuns
    /\ runs' = runs + 1
    /\ LET dirs == GroupAppend(dir_to_chunks,
                               [i \in 1..Len(chunks) |-> DirKey(chunks[i])])
       IN  /\ dir_to_chunks' = dirs
           /\ tiers' = TiersAfterBuild(dirs)
    /\ file_to_chunks' = GroupAppend(file_to_chunks,
                            [i \in 1..Len(chunks) |-> chunks[i].file_path])
    /\ chunks' = [i \in 1..Len(chunks) |->
                     [chunks[i] EXCEPT !.kind = <<_get_chunk_kind(chunks[i])>>]]
    /\ pc' = "parents"
    /\ UNCHANGED <<relationships, parent_maps, positions,
                   iterations_run, layout_mode, bundle, tier_idx, force_loop>>

build_tiers ==
    /\ pc = "idle"
    /\ runs < MaxRuns
    /\ runs' = runs + 1
    /\ LET dirs == GroupAppend(dir_to_chunks,
                               [i \in 1..Len(chunks) |-> DirKey(chunks[i])])
       IN  /\ dir_to_chunks' = dirs
           /\ tiers' = TiersAfterBuild(dirs)
    /\ file_to_chunks' = GroupAppend(file_to_chunks,
                            [i \in 1..Len(chunks) |-> chunks[i].file_path])
    /\ pc' = "parents"
    /\ UNCHANGED <<chunks, relationships, parent_maps, positions,
                   iterations_run, layout_mode, bundle, tier_idx, force_loop>>

HasKey(d, k) == k \in DOMAIN d

IdsOf(refs) == [i \in 1..Len(refs) |-> ChunkId(refs[i])]

\* mutant: the parent directory is cut to one segment, not to the depth
\* the aggregates were keyed with
GalaxyParents_Depth1(pm) ==
    LET g == tiers["galaxy"]
    IN  AssignAll(pm, IdsOf(g),
                  [i \in 1..Len(g) |->
                      "dir:" \o _extract_directory(chunks[g[i]].file_path, 1)])

\* lines 277-282: galaxy -> universe
GalaxyParents(pm) ==
    LET g == tiers["galaxy"]
    IN  AssignAll(pm, IdsOf(g),
                  [i \in 1..Len(g) |-> "dir:" \o DirKey(chunks[g[i]])])

\* mutant: the first galaxy chunk of a file is kept (setdefault)
FileToModule_KeepFirst ==
    LET g == tiers["galaxy"]
        rev == [i \in 1..Len(g) |-> g[Len(g) + 1 - i]]
    IN  AssignAll(EmptyDict, [i \in 1..Len(g) |-> chunks[rev[i]].file_path],
                  IdsOf(rev))

\* lines 285-287: file_to_module[chunk.file_path] = id, for chunk in galaxy
FileToModule ==
    LET g == tiers["galaxy"]
    IN  AssignAll(EmptyDict, [i \in 1..Len(g) |-> chunks[g[i]].file_path],
                  IdsOf(g))

\* lines 289-293: system -> galaxy
SystemParents(pm) ==
    LET file_to_module == FileToModule
        linked == SelectSeq(tiers["system"],
                      LAMBDA r : HasKey(file_to_module, chunks[r].file_path))
    IN  AssignAll(pm, IdsOf(linked),
                  [i \in 1..Len(linked) |->
                      file_to_module[chunks[linked[i]].file_path]])

MetaGet(metadata, key) == IF key \in DOMAIN metadata THEN metadata[key] ELSE ""

\* mutant: the metadata entry is preferred to the parent_id attribute
PlanetParentRef_MetadataFirst(chunk) ==
    IF DOMAIN chunk.metadata # {} /\ MetaGet(chunk.metadata, "parent_id") # ""
    THEN MetaGet(chunk.metadata, "parent_id")
    ELSE chunk.parent_id

\* lines 299-304: the parent reference of a planet chunk, "" when it has none
PlanetParentRef(chunk) ==
    IF chunk.parent_id # "" THEN chunk.parent_id
    ELSE IF DOMAIN chunk.metadata # {}
    THEN MetaGet(chunk.metadata, "parent_id")
    ELSE ""

\* lines 297-304: planet -> system
PlanetParents(pm) ==
    LET linked == SelectSeq(tiers["planet"],
                      LAMBDA r : PlanetParentRef(chunks[r]) # "")
    IN  AssignAll(pm, IdsOf(linked),
                  [i \in 1..Len(linked) |-> PlanetParentRef(chunks[linked[i]])])

build_parent_maps ==
    /\ pc = "parents"
    /\ parent_maps' = [galaxy |-> GalaxyParents(parent_maps["galaxy"]),
                       system |-> SystemParents(parent_maps["system"]),
                       planet |-> PlanetParents(parent_maps["planet"])]
    /\ pc' = "layout"
    /\ tier_idx' = 1
    /\ UNCHANGED <<chunks, relationships, tiers, dir_to_chunks, file_to_chunks,
                   positions, iterations_run, layout_mode, bundle, runs,
                   force_loop>>

(***************************************************************************)
(* Layout.  A position is symbolic:                                        *)
(*   placed  "spiral" (force initialisation), "cluster" (parent-anchored   *)
(*           spiral) or "grid" (orphan grid);                              *)
(*   centre  "parent" (around the position of centre_id), "origin",        *)
(*           "random" (a random point) or "offset" (the orphan grid);      *)
(*   index   the enumerate() index used for angle and radius;              *)
(*   steps   integration steps applied since.                              *)
(***************************************************************************)
DefaultIterations == 100
MaxBase == 9     \* largest base count, besides the default, that is tried
ClusterThreshold == 20000
ReducedThreshold == 10000
MinReducedIterations == 10

Position(placed, kind, id, i) ==
    [placed |-> placed, centre |-> kind, centre_id |-> id, index |-> i,
     steps |-> 0]

\* truth value of an optional dict argument: None (<<>>) and {} are falsy
Truthy(opt) == opt # <<>> /\ DOMAIN opt[1] # {}

\* node['node_id'] if isinstance(node, dict) else self._get_chunk_id(node)
NodeId(tier_name, node) ==
    IF tier_name = "universe" THEN node.node_id ELSE ChunkId(node)

NodeIds(tier_name, nodes) ==
    [i \in 1..Len(nodes) |-> NodeId(tier_name, nodes[i])]

\* lines 367-369 and 438-440: the parent whose position anchors node_id
Anchor(node_id, parent_positions, parent_map) ==
    IF /\ Truthy(parent_positions)
       /\ Truthy(parent_map)
       /\ HasKey(parent_map[1], node_id)
       /\ HasKey(parent_positions[1], parent_map[1][node_id])
    THEN <<parent_map[1][node_id]>>
    ELSE <<>>

\* lines 362-385: the value written to positions[ids[i]], for each i in turn
InitialPositions(ids, parent_positions, parent_map) ==
    [i \in 1..Len(ids) |->
        LET a == Anchor(ids[i], parent_positions, parent_map)
        IN  IF a # <<>> THEN Position("spiral", "parent", a[1], i - 1)
            ELSE Position("spiral", "origin", "", i - 1)] \o <<>>

\* lines 403-457: one iteration; every entry of positions is displaced once.
\* The entries are held as the list of values written at initialisation:
\* the displacement acts on each entry alone, and the dict keeps the last
\* value written for a key.
ForceIteration(st) ==
    [written |-> [i \in 1..Len(st.written) |->
                     [st.written[i] EXCEPT !.steps = @ + 1]] \o <<>>,
     count |-> st.count + 1]

\* lines 402-457: for iteration in range(iterations), the body applied
\* `iterations` times.  The range is halved to keep the recursion shallow,
\* and x is bound to the finished first half before the second half starts.
RECURSIVE ForceLoop(_, _)
ForceLoop(st, iterations) ==
    IF iterations <= 0 THEN st
    ELSE IF iterations = 1 THEN ForceIteration(st)
    ELSE LET half == iterations \div 2
         IN  CHOOSE r \in {ForceLoop(x, iterations - half) :
                              x \in {ForceLoop(st, half)}} : TRUE

RECURSIVE Flatten(_, _, _)
Flatten(seqs, lo, hi) ==
    IF lo > hi THEN <<>>
    ELSE IF lo = hi THEN seqs[lo]
    ELSE LET mid == (lo + hi) \div 2
         IN  Flatten(seqs, lo, mid) \o Flatten(seqs, mid + 1, hi)

\* mutant: the nodes without a parent entry get no position
_compute_parent_anchored_positions_OrphansDropped(ids, parent_positions, parent_map) ==
    LET hasParent(id) == Truthy(parent_map) /\ HasKey(parent_map[1], id)
        parented == SelectSeq(ids, hasParent)
        parent_to_nodes ==
            GroupAppend(<<>>, [i \in 1..Len(parented) |->
                                  parent_map[1][parented[i]]])
        centre(parent_id) ==
            IF Truthy(parent_positions) /\ HasKey(parent_positions[1], parent_id)
            THEN "parent" ELSE "random"
        groupIds == [g \in 1..Len(parent_to_nodes) |->
                        [i \in 1..Len(parent_to_nodes[g].val) |->
                            parented[parent_to_nodes[g].val[i]]]]
        groupPos == [g \in 1..Len(parent_to_nodes) |->
                        [i \in 1..Len(parent_to_nodes[g].val) |->
                            Position("cluster",
                                     centre(parent_to_nodes[g].key),
                                     parent_to_nodes[g].key, i - 1)]]
    IN  AssignAll(EmptyDict,
                  Flatten(groupIds, 1, Len(groupIds)),
                  Flatten(groupPos, 1, Len(groupPos)))

\* mutant: the nodes whose parent has no position join the orphans
_compute_parent_anchored_positions_UnpositionedToGrid(ids, parent_positions, parent_map) ==
    LET hasParent(id) ==
            /\ Truthy(parent_map) /\ HasKey(parent_map[1], id)
            /\ Truthy(parent_positions)
            /\ HasKey(parent_positions[1], parent_map[1][id])
        parented == SelectSeq(ids, hasParent)
        orphan_nodes == SelectSeq(ids, LAMBDA id : ~hasParent(id))
        parent_to_nodes ==
            GroupAppend(<<>>, [i \in 1..Len(parented) |->
                                  parent_map[1][parented[i]]])
        groupIds == [g \in 1..Len(parent_to_nodes) |->
                        [i \in 1..Len(parent_to_nodes[g].val) |->
                            parented[parent_to_nodes[g].val[i]]]]
        groupPos == [g \in 1..Len(parent_to_nodes) |->
                        [i \in 1..Len(parent_to_nodes[g].val) |->
                            Position("cluster", "parent",
                                     parent_to_nodes[g].key, i - 1)]]
        orphanPos == [i \in 1..Len(orphan_nodes) |->
                        Position("grid", "offset", "", i - 1)]
    IN  AssignAll(EmptyDict,
                  Flatten(groupIds, 1, Len(groupIds)) \o orphan_nodes,
                  Flatten(groupPos, 1, Len(groupPos)) \o orphanPos)

\* lines 461-526
_compute_parent_anchored_positions(ids, parent_positions, parent_map) ==
    LET hasParent(id) == Truthy(parent_map) /\ HasKey(parent_map[1], id)
        parented == SelectSeq(ids, hasParent)
        orphan_nodes == SelectSeq(ids, LAMBDA id : ~hasParent(id))
        parent_to_nodes ==
            GroupAppend(<<>>, [i \in 1..Len(parented) |->
                                  parent_map[1][parented[i]]])
        centre(parent_id) ==
            IF Truthy(parent_positions) /\ HasKey(parent_positions[1], parent_id)
            THEN "parent" ELSE "random"
        groupIds == [g \in 1..Len(parent_to_nodes) |->
                        [i \in 1..Len(parent_to_nodes[g].val) |->
                            parented[parent_to_nodes[g].val[i]]]]
        groupPos == [g \in 1..Len(parent_to_nodes) |->
                        [i \in 1..Len(parent_to_nodes[g].val) |->
                            Position("cluster",
                                     centre(parent_to_nodes[g].key),
                                     parent_to_nodes[g].key, i - 1)]]
        orphanPos == [i \in 1..Len(orphan_nodes) |->
                        Position("grid", "offset", "", i - 1)]
    IN  AssignAll(EmptyDict,
                  Flatten(groupIds, 1, Len(groupIds)) \o orphan_nodes,
                  Flatten(groupPos, 1, Len(groupPos)) \o orphanPos)

\* mutant: an empty tier is laid out like any other
Strategy_NoEmptyCheck(n) ==
    IF n > ClusterThreshold THEN "anchored" ELSE "force"

\* lines 343-359: what the layout of n nodes does with a nominal iteration count
Strategy(n) ==
    IF n = 0 THEN "skipped"
    ELSE IF n > ClusterThreshold THEN "anchored"
    ELSE "force"

\* mutant: the reduced count is not floored
EffectiveIterations_NoFloor(n, iterations) ==
    IF n > ReducedThreshold THEN iterations \div 4 ELSE iterations

EffectiveIterations(n, iterations) ==
    IF n > ReducedThreshold
    THEN Max(MinReducedIterations, iterations \div 4)
    ELSE iterations

\* mutant: the system tier is given a quarter of the base count
NominalIterations_SystemQuarter(idx, iterations) ==
    CASE idx = 1 -> iterations
      [] idx = 2 -> iterations \div 2
      [] idx = 3 -> iterations \div 4
      [] idx = 4 -> iterations \div 4

\* lines 317-329: the arguments compute_positions passes for each tier
NominalIterations(idx, iterations) ==
    CASE idx = 1 -> iterations
      [] idx = 2 -> iterations \div 2
      [] idx = 3 -> iterations \div 2
      [] idx = 4 -> iterations \div 4

ParentPositionsArg(idx) ==
    IF idx = 1 THEN <<>> ELSE <<positions[TierNames[idx - 1]]>>

ParentMapArg(idx) ==
    IF idx = 1 THEN <<>> ELSE <<parent_maps[TierNames[idx]]>>

\* _compute_tier_layout, called by compute_positions for tier TierNames[tier_idx]
_compute_tier_layout ==
    /\ pc = "layout"
    /\ LET tier_name == TierNames[tier_idx]
           nodes == tiers[tier_name]
           n == Len(nodes)
           ids == NodeIds(tier_name, nodes)
           parent_positions == ParentPositionsArg(tier_idx)
           parent_map == ParentMapArg(tier_idx)
           iterations ==
               EffectiveIterations(n, NominalIterations(tier_idx,
                                                        DefaultIterations))
           mode == Strategy(n)
           forced == ForceLoop([written |->
                                    InitialPositions(ids, parent_positions,
                                                     parent_map),
                                count |-> 0], iterations)
       IN  /\ layout_mode' = [layout_mode EXCEPT ![tier_name] = mode]
           /\ CASE mode = "skipped" ->
                     /\ positions' = positions
                     /\ iterations_run' =
                            [iterations_run EXCEPT ![tier_name] = 0]
                [] mode = "anchored" ->
                     /\ positions' =
                            [positions EXCEPT ![tier_name] =
                                _compute_parent_anchored_positions(
                                    ids, parent_positions, parent_map)]
                     /\ iterations_run' =
                            [iterations_run EXCEPT ![tier_name] = 0]
                [] mode = "force" ->
                     /\ positions' =
                            [positions EXCEPT ![tier_name] =
                                AssignAll(EmptyDict, ids, forced.written)]
                     /\ iterations_run' =
                            [iterations_run EXCEPT ![tier_name] = forced.count]
    /\ IF tier_idx < 4
       THEN pc' = "layout" /\ tier_idx' = tier_idx + 1
       ELSE pc' = "serialize" /\ tier_idx' = tier_idx
    /\ UNCHANGED <<chunks, relationships, tiers, dir_to_chunks, file_to_chunks,
                   parent_maps, bundle, runs, force_loop>>

(***************************************************************************)
(* export(): the bundle built and written after compute_positions.         *)
(***************************************************************************)
\* lines 563-579
NodeData(tier_name, node) ==
    IF tier_name = "universe" THEN node
    ELSE [node_id |-> _get_chunk_id(chunks[node]),
          name |-> _get_chunk_name(chunks[node]),
          kind |-> _get_chunk_kind(chunks[node]),
          file |-> chunks[node].file_path]

\* lines 582-583: round(x, 2), round(y, 2) of the symbolic coordinates
Rounded(p) == [of |-> p, ndigits |-> 2]

\* mutant: an edge is kept when its source alone is in the tier
TierEdges_SourceOnly(node_ids_in_tier) ==
    LET kept == SelectSeq(relationships,
                    LAMBDA rel : _get_rel_source_id(rel) \in node_ids_in_tier)
    IN  [i \in 1..Len(kept) |->
            [src |-> _get_rel_source_id(kept[i]),
             dst |-> _get_rel_target_id(kept[i]),
             kind |-> _get_rel_kind(kept[i])]]

\* lines 586-594
TierEdges(node_ids_in_tier) ==
    LET kept == SelectSeq(relationships,
                    LAMBDA rel : /\ _get_rel_source_id(rel) \in node_ids_in_tier
                                 /\ _get_rel_target_id(rel) \in node_ids_in_tier)
    IN  [i \in 1..Len(kept) |->
            [src |-> _get_rel_source_id(kept[i]),
             dst |-> _get_rel_target_id(kept[i]),
             kind |-> _get_rel_kind(kept[i])]]

\* lines 551-596
TierData(tier_name) ==
    LET nodes == [i \in 1..Len(tiers[tier_name]) |->
                     NodeData(tier_name, tiers[tier_name][i])]
        node_ids_in_tier == {nodes[i].node_id : i \in 1..Len(nodes)}
    IN  [nodes |-> nodes,
         edges |-> TierEdges(node_ids_in_tier),
         positions |-> [id \in DOMAIN positions[tier_name] |->
                           Rounded(positions[tier_name][id])],
         parent_map |-> IF tier_name # "universe"
                        THEN <<parent_maps[tier_name]>> ELSE <<>>]

\* mutant: total_nodes counts the nodes of the four tiers
Meta_TotalFromTiers ==
    [total_nodes |-> Len(tiers["universe"]) + Len(tiers["galaxy"])
                         + Len(tiers["system"]) + Len(tiers["planet"]),
     total_edges |-> Len(relationships),
     tiers |-> <<"universe", "galaxy", "system", "planet">>,
     tier_counts |-> [t \in DOMAIN tiers |-> Len(tiers[t])]]

\* lines 536-547
Meta ==
    [total_nodes |-> Len(chunks),
     total_edges |-> Len(relationships),
     tiers |-> <<"universe", "galaxy", "system", "planet">>,
     tier_counts |-> [t \in DOMAIN tiers |-> Len(tiers[t])]]

\* lines 536-596: the bundle export() assembles in memory
Bundle ==
    [version |-> "v2.0",
     meta |-> Meta,
     universe |-> TierData("universe"),
     galaxy |-> TierData("galaxy"),
     system |-> TierData("system"),
     planet |-> TierData("planet")]

\* mutant: the serializer rounds the position maps in place
write_bundle_RoundsInPlace ==
    /\ pc = "serialize"
    /\ bundle' = <<Bundle>>
    /\ positions' = [t \in DOMAIN positions |->
                        [id \in DOMAIN positions[t] |->
                            [positions[t][id] EXCEPT !.placed = "rounded"]]]
    /\ pc' = "idle"
    /\ UNCHANGED <<chunks, relationships, tiers, dir_to_chunks, file_to_chunks,
                   parent_maps, iterations_run, layout_mode,
                   tier_idx, runs, force_loop>>

\* lines 535-600: build the bundle and write it to output_path
write_bundle ==
    /\ pc = "serialize"
    /\ bundle' = <<Bundle>>
    /\ pc' = "idle"
    /\ UNCHANGED <<chunks, relationships, tiers, dir_to_chunks, file_to_chunks,
                   parent_maps, positions, iterations_run, layout_mode,
                   tier_idx, runs, force_loop>>

\* the top-level entries of the bundle in the order json.dump encodes them
BundleKeys == <<"version", "meta", "universe", "galaxy", "system", "planet">>

\* line 599: open(output_path, 'w') raises.  Nothing is written; the
\* exception leaves export() and generate_fixture reports the failure
\* (lines 809-815).
open_fails ==
    /\ pc = "serialize"
    /\ pc' = "failed"
    /\ UNCHANGED <<chunks, relationships, tiers, dir_to_chunks, file_to_chunks,
                   parent_maps, positions, iterations_run, layout_mode,
                   bundle, tier_idx, runs, force_loop>>

\* line 600: json.dump encodes the bundle piece by piece and writes each
\* piece to the opened file.  When a write raises (OSError) or a value cannot
\* be encoded (TypeError) the pieces written so far stay in the file: here
\* the first k top-level entries.  Nothing removes the file afterwards
\* (lines 809-815).
json_dump_fails ==
    /\ pc = "serialize"
    /\ \E k \in 0..(Len(BundleKeys) - 1) :
           bundle' = << [key \in {BundleKeys[i] : i \in 1..k} |-> Bundle[key]] >>
    /\ pc' = "failed"
    /\ UNCHANGED <<chunks, relationships, tiers, dir_to_chunks, file_to_chunks,
                   parent_maps, positions, iterations_run, layout_mode,
                   tier_idx, runs, force_loop>>

(***************************************************************************)
(* Inputs.  Chunks come in the two shapes the helpers accept: the          *)
(* treesitter-chunker shape (chunk_id, node_type) and the mock shape       *)
(* (node_id, kind).  Identifiers are present and unique, as the chunker    *)
(* produces them: the i-th chunk is "n<i>".                                *)
(***************************************************************************)
Id(i) == "n" \o ToString(i)

TsChunk(node_type, file_path, parent_id, metadata) ==
    [chunk_id |-> "$", node_id |-> "", node_type |-> <<node_type>>,
     kind |-> <<>>, file_path |-> file_path, parent_id |-> parent_id,
     metadata |-> metadata, name |-> "", qualified_route |-> <<>>]

MockChunk(kind, file_path, parent_id, metadata) ==
    [chunk_id |-> "", node_id |-> "$", node_type |-> <<>>, kind |-> kind,
     file_path |-> file_path, parent_id |-> parent_id, metadata |-> metadata,
     name |-> "", qualified_route |-> <<>>]

ChunkTemplates ==
    { TsChunk("module", "a/b.py", "", EmptyDict),
      MockChunk(<<"MODULE">>, "x/.h/y/z/b.py", "", EmptyDict),
      TsChunk("class_definition", "a/b.py", "", EmptyDict),
      TsChunk("method_definition", "a/b.py", "n1", [parent_id |-> "n2"]),
      MockChunk(<<>>, "top.py", "", [parent_id |-> "ghost"]),
      [TsChunk("", "a/c.py", "", [exports |-> <<"f">>]) EXCEPT !.kind = <<"class">>],
      MockChunk(<<"weird">>, "/a/b.py", "n2", EmptyDict) }

\* the template with the identifier of the i-th chunk filled in
WithId(template, i) ==
    [template EXCEPT !.chunk_id = IF @ = "$" THEN Id(i) ELSE @,
                     !.node_id = IF @ = "$" THEN Id(i) ELSE @]

TsRel(src, dst, type) ==
    [source_chunk_id |-> <<src>>, target_chunk_id |-> <<dst>>,
     relationship_type |-> <<type>>, source_id |-> <<>>, target_id |-> <<>>,
     kind |-> <<>>]

MockRel(src, dst, kind) ==
    [source_chunk_id |-> <<>>, target_chunk_id |-> <<>>,
     relationship_type |-> <<>>, source_id |-> <<src>>, target_id |-> <<dst>>,
     kind |-> <<kind>>]

BareRel ==
    [source_chunk_id |-> <<>>, target_chunk_id |-> <<>>,
     relationship_type |-> <<>>, source_id |-> <<>>, target_id |-> <<>>,
     kind |-> <<>>]

RelationshipLists ==
    { <<>>,
      << TsRel("n1", "n2", "calls"), MockRel("n2", "n1", "uses"),
         TsRel("n1", "n2", "calls") >>,
      << MockRel("n3", "n1", "uses"), TsRel("n1", "ghost", "calls"), BareRel,
         TsRel("n2", "n3", "inherits"), MockRel("n2", "n2", "self") >> }

ChunkLists ==
    UNION { { [i \in 1..k |-> WithId(f[i], i)] : f \in [1..k -> ChunkTemplates] }
            : k \in 0..MaxChunks }

\* no force loop is being stepped
NoLoop == [pass |-> "none"]

\* TieredBundleExporter.__init__ on the given input
Constructed(cs, rels) ==
    /\ force_loop = NoLoop
    /\ chunks = cs
    /\ relationships = rels
    /\ tiers = [universe |-> <<>>, galaxy |-> <<>>, system |-> <<>>,
                planet |-> <<>>]
    /\ positions = [universe |-> EmptyDict, galaxy |-> EmptyDict,
                    system |-> EmptyDict, planet |-> EmptyDict]
    /\ parent_maps = [galaxy |-> EmptyDict, system |-> EmptyDict,
                      planet |-> EmptyDict]
    /\ dir_to_chunks = <<>>
    /\ file_to_chunks = <<>>
    /\ iterations_run = [universe |-> 0, galaxy |-> 0, system |-> 0,
                         planet |-> 0]
    /\ layout_mode = [universe |-> "none", galaxy |-> "none",
                      system |-> "none", planet |-> "none"]
    /\ bundle = <<>>
    /\ pc = "idle"
    /\ tier_idx = 1
    /\ runs = 0

Init == \E cs \in ChunkLists, rels \in RelationshipLists : Constructed(cs, rels)

Next ==
    \/ build_tiers
    \/ build_parent_maps
    \/ _compute_tier_layout
    \/ write_bundle

Spec == Init /\ [][Next]_vars

(***************************************************************************)
(* Large inputs, for the population thresholds of the layout.  An input is *)
(* described by four numbers: the first `spread` chunks sit in a directory *)
(* of their own, the others share three files in two directories; the      *)
(* first `g` chunks are modules, the next `s` classes and the last `p`     *)
(* functions.  Every second function names the first class as its parent,  *)
(* the third shared file has no module.                                    *)
(***************************************************************************)
LargeFiles == <<"d1/m.py", "d1/n.py", "d2/x.py">>

LargeChunk(i, in) ==
    LET spreadOut == i <= in.spread
        file(k) == IF spreadOut THEN "d" \o ToString(i) \o "/m.py"
                   ELSE LargeFiles[(i % k) + 1]
    IN  IF i <= in.g
        THEN WithId(TsChunk("module", file(2), "", EmptyDict), i)
        ELSE IF i <= in.g + in.s
        THEN WithId(MockChunk(<<"class">>, file(3), "", EmptyDict), i)
        ELSE WithId(TsChunk("method", file(3),
                            IF i % 2 = 0 THEN Id(in.g + 1) ELSE "",
                            EmptyDict), i)

LargeChunks(in) ==
    [i \in 1..(in.g + in.s + in.p) |-> LargeChunk(i, in)] \o <<>>

LargeInput(spread, g, s, p) == [spread |-> spread, g |-> g, s |-> s, p |-> p]

\* the populations on either side of the two thresholds of lines 351 and 355
LargeSizes ==
    {ReducedThreshold, ReducedThreshold + 1, ClusterThreshold,
     ClusterThreshold + 1}

SmallSizes == {0, 1, 3}

(***************************************************************************)
(* The planet tier at each of the four sizes; one input with the galaxy    *)
(* tier reduced and the system tier clustered; one with as many            *)
(* directories as chunks, the universe tier reduced; and small             *)
(* populations of every tier.                                              *)
(***************************************************************************)
LargeInputs ==
    {LargeInput(0, 2, 2, n) : n \in LargeSizes}
    \cup {LargeInput(0, ReducedThreshold + 1, ClusterThreshold + 1, 3)}
    \cup {LargeInput(n, n \div 3, n \div 3, n - 2 * (n \div 3)) :
             n \in {ReducedThreshold + 1}}
    \cup {LargeInput(g, g, s, p) : g \in {0, 1}, s \in SmallSizes,
                                  p \in SmallSizes}

InitLarge ==
    \E in \in LargeInputs :
        Constructed(LargeChunks(in),
                    << TsRel(Id(1), Id(2), "calls"),
                       MockRel(Id(in.g + 1), Id(in.g + 2), "uses") >>)

\* generate_fixture (line 798) constructs an exporter for each export
NextLarge ==
    \/ runs = 0 /\ build_tiers
    \/ build_parent_maps
    \/ _compute_tier_layout
    \/ write_bundle

SpecLarge == InitLarge /\ [][NextLarge]_vars

(***************************************************************************)
(* Inputs for the clustering: as the large inputs, but of the methods one  *)
(* in three names the first class as its parent, one in three names        *)
(* `ghost`, which is no node, and one in three names no parent.            *)
(***************************************************************************)
ClusterChunks(in) ==
    [i \in 1..(in.g + in.s + in.p) |->
        LET c == LargeChunk(i, in)
        IN  IF i <= in.g + in.s THEN c
            ELSE [c EXCEPT !.parent_id =
                     CASE i % 3 = 0 -> Id(in.g + 1)
                       [] i % 3 = 1 -> "ghost"
                       [] OTHER -> ""]] \o <<>>

\* a planet tier above the clustering threshold, and small populations
ClusterInputs ==
    {LargeInput(0, 2, 2, ClusterThreshold + 1)}
    \cup {LargeInput(g, g, s, p) : g \in {0, 1}, s \in SmallSizes,
                                  p \in SmallSizes}

InitCluster ==
    \E in \in ClusterInputs : Constructed(ClusterChunks(in), <<>>)

SpecCluster == InitCluster /\ [][NextLarge]_vars

(***************************************************************************)
(* One export in which opening or writing the output file may fail.        *)
(***************************************************************************)
NextFail ==
    \/ runs = 0 /\ build_tiers
    \/ build_parent_maps
    \/ _compute_tier_layout
    \/ write_bundle
    \/ open_fails
    \/ json_dump_fails

SpecFail == Init /\ [][NextFail]_vars

(***************************************************************************)
(* The force loop of _compute_tier_layout (lines 402-457) on one tier,     *)
(* taken one node of one pass at a time.  Coordinates and forces are       *)
(* integers: a quotient is cut towards zero, a square root is the integer  *)
(* root, the guard 0.1 that keeps a distance positive is one unit, and the *)
(* constants 0.005 and 0.01 are the divisors 200 and 100.                  *)
(***************************************************************************)
MaxIterations == 2   \* iterations of the stepped force loop

InteractionRadius == 1500
KRepelSmall == 5000
KRepelMedium == 2000
KRepelLarge == 1000
KAttractDivisor == 200
KGravityParentDivisor == 100
KGravityDivisor == 200
MaxDisplacement == 100

Quot(a, b) == IF a >= 0 THEN a \div b ELSE -((-a) \div b)

RECURSIVE RootBetween(_, _, _)
RootBetween(n, lo, hi) ==
    IF lo = hi THEN lo
    ELSE LET mid == (lo + hi + 1) \div 2
         IN  IF mid * mid <= n THEN RootBetween(n, mid, hi)
             ELSE RootBetween(n, lo, mid - 1)

\* math.sqrt
ISqrt(n) == RootBetween(n, 0, Min(n, 46340))

Add(u, v) == <<u[1] + v[1], u[2] + v[2]>>

RECURSIVE SumSeq(_)
SumSeq(vs) == IF vs = <<>> THEN <<0, 0>> ELSE Add(Head(vs), SumSeq(Tail(vs)))

RECURSIVE SumSet(_, _)
SumSet(S, f) ==
    IF S = {} THEN <<0, 0>>
    ELSE LET e == CHOOSE e \in S : TRUE
         IN  Add(f[e], SumSet(S \ {e}, f))

\* line 400
BaseRepel(n) ==
    IF n < 100 THEN KRepelSmall ELSE IF n < 1000 THEN KRepelMedium
    ELSE KRepelLarge

\* lines 411-418: what the node at p receives from the node at q
Repulsion(p, q, k_repel) ==
    LET dx == p[1] - q[1]
        dy == p[2] - q[2]
        dist == ISqrt(dx * dx + dy * dy) + 1
        force == k_repel \div (dist * dist)
    IN  IF dist < InteractionRadius
        THEN <<Quot(dx * force, dist), Quot(dy * force, dist)>>
        ELSE <<0, 0>>

\* lines 425-432: what the node at p receives from its neighbour at q
Attraction(p, q) ==
    LET dx == q[1] - p[1]
        dy == q[2] - p[2]
        dist == ISqrt(dx * dx + dy * dy) + 1
        force == dist \div KAttractDivisor
    IN  <<Quot(dx * force, dist), Quot(dy * force, dist)>>

\* lines 435-444: the pull of the node at p towards its centre c
Gravity(p, c, anchored) ==
    LET k == IF anchored THEN KGravityParentDivisor ELSE KGravityDivisor
    IN  <<Quot(c[1] - p[1], k), Quot(c[2] - p[2], k)>>

\* mutant: the displacement is capped at 100 in every iteration
Displaced_NoCooling(p, f, iteration, iterations) ==
    LET mag == ISqrt(f[1] * f[1] + f[2] * f[2]) + 1
        displacement == Min(mag, MaxDisplacement)
    IN  <<p[1] + Quot(f[1] * displacement, mag),
          p[2] + Quot(f[2] * displacement, mag)>>

\* mutant: gravity pulls every node towards the origin
GravityCentre_AlwaysOrigin(nid, parent_positions, parent_map) == <<0, 0>>

\* lines 437-441: cx, cy
GravityCentre(nid, parent_positions, parent_map) ==
    LET a == Anchor(nid, parent_positions, parent_map)
    IN  IF a # <<>> THEN parent_positions[1][a[1]] ELSE <<0, 0>>

\* lines 447-457: the node at p moved by the force f
Displaced(p, f, iteration, iterations) ==
    LET max_displacement ==
            (MaxDisplacement * (iterations - iteration)) \div iterations
        mag == ISqrt(f[1] * f[1] + f[2] * f[2]) + 1
        displacement == Min(mag, max_displacement)
    IN  <<p[1] + Quot(f[1] * displacement, mag),
          p[2] + Quot(f[2] * displacement, mag)>>

\* the next node of the pass, or the first node of the next pass
Advance(loop, next_pass) ==
    IF loop.cursor < Len(loop.order) THEN [loop EXCEPT !.cursor = @ + 1]
    ELSE [loop EXCEPT !.cursor = 1, !.pass = next_pass]

\* mutant: a node is moved as soon as its repulsion is known
RepulsionStep_InPlace(loop, nid) ==
    LET others == SelectSeq(loop.order, LAMBDA other_id : other_id # nid)
        f == SumSeq([i \in 1..Len(others) |->
                        Repulsion(loop.positions[nid],
                                  loop.positions[others[i]],
                                  BaseRepel(Len(loop.order)))])
    IN  [loop EXCEPT !.forces[nid] = Add(@, f),
                     !.positions[nid] =
                         Displaced(@, f, loop.iteration, loop.iterations)]

\* lines 407-418, one round of the outer loop
RepulsionStep(loop, nid) ==
    LET others == SelectSeq(loop.order, LAMBDA other_id : other_id # nid)
    IN  [loop EXCEPT !.forces[nid] =
            Add(@, SumSeq([i \in 1..Len(others) |->
                              Repulsion(loop.positions[nid],
                                        loop.positions[others[i]],
                                        BaseRepel(Len(loop.order)))]))]

\* lines 422-432, one round of the outer loop
AttractionStep(loop, nid) ==
    LET neighbors == loop.adjacency[nid] \cap DOMAIN loop.positions
    IN  [loop EXCEPT !.forces[nid] =
            Add(@, SumSet(neighbors,
                          [neighbor \in neighbors |->
                              Attraction(loop.positions[nid],
                                         loop.positions[neighbor])]))]

\* lines 436-444, one round of the loop
GravityStep(loop, nid) ==
    [loop EXCEPT !.forces[nid] =
        Add(@, Gravity(loop.positions[nid],
                       GravityCentre(nid, loop.parent_positions,
                                     loop.parent_map),
                       Truthy(loop.parent_positions)))]

\* lines 450-457, one round of the loop
ApplyStep(loop, nid) ==
    [loop EXCEPT !.positions[nid] =
        Displaced(@, loop.forces[nid], loop.iteration, loop.iterations)]

CurrentNode == force_loop.order[force_loop.cursor]

exporterVars == <<chunks, relationships, tiers, dir_to_chunks, file_to_chunks,
                  parent_maps, positions, iterations_run, layout_mode,
                  bundle, pc, tier_idx, runs>>

\* lines 402-403: an iteration begins with all forces zero
start_iteration ==
    /\ force_loop.pass = "loop"
    /\ force_loop.iteration < force_loop.iterations
    /\ force_loop' =
           [force_loop EXCEPT
               !.forces = [nid \in DOMAIN force_loop.positions |-> <<0, 0>>],
               !.start = force_loop.positions,
               !.pass = "repulsion",
               !.cursor = 1]
    /\ UNCHANGED exporterVars

repulsion_pass ==
    /\ force_loop.pass = "repulsion"
    /\ force_loop' =
           Advance(RepulsionStep(force_loop, CurrentNode), "attraction")
    /\ UNCHANGED exporterVars

attraction_pass ==
    /\ force_loop.pass = "attraction"
    /\ force_loop' =
           Advance(AttractionStep(force_loop, CurrentNode), "gravity")
    /\ UNCHANGED exporterVars

gravity_pass ==
    /\ force_loop.pass = "gravity"
    /\ force_loop' = Advance(GravityStep(force_loop, CurrentNode), "apply")
    /\ UNCHANGED exporterVars

\* lines 450-457; after the last node the next iteration is due
apply_forces ==
    /\ force_loop.pass = "apply"
    /\ LET moved == Advance(ApplyStep(force_loop, CurrentNode), "loop")
       IN  force_loop' =
               IF moved.pass = "loop"
               THEN [moved EXCEPT !.iteration = @ + 1] ELSE moved
    /\ UNCHANGED exporterVars

\* line 459: the loop is over and the positions are committed
finish_loop ==
    /\ force_loop.pass = "loop"
    /\ force_loop.iteration = force_loop.iterations
    /\ force_loop' = [force_loop EXCEPT !.pass = "done"]
    /\ UNCHANGED exporterVars

ForceNodes == {"a", "b", "c"}

ForcePoints == {<<0, 0>>, <<3, 4>>, <<-300, 400>>}

\* the orders in which a dict can hold the nodes
ForceOrders ==
    {o \in [1..Cardinality(ForceNodes) -> ForceNodes] :
        \A i, j \in DOMAIN o : i # j => o[i] # o[j]}

\* lines 388-396: no edge; or the edges a-c and b-c
ForceAdjacencies ==
    {[nid \in ForceNodes |-> {}],
     [nid \in ForceNodes |-> IF nid = "c" THEN {"a", "b"} ELSE {"c"}]}

\* the arguments of the layout: none (the universe tier), or a and b with
\* a positioned parent and c without parent
ForceParents ==
    {[parent_positions |-> <<>>, parent_map |-> <<>>],
     [parent_positions |-> <<("p" :> <<10, -20>>)>>,
      parent_map |-> <<("a" :> "p") @@ ("b" :> "p")>>]}

InitForce ==
    /\ chunks = <<>>
    /\ relationships = <<>>
    /\ tiers = [universe |-> <<>>, galaxy |-> <<>>, system |-> <<>>,
                planet |-> <<>>]
    /\ positions = [universe |-> EmptyDict, galaxy |-> EmptyDict,
                    system |-> EmptyDict, planet |-> EmptyDict]
    /\ parent_maps = [galaxy |-> EmptyDict, system |-> EmptyDict,
                      planet |-> EmptyDict]
    /\ dir_to_chunks = <<>>
    /\ file_to_chunks = <<>>
    /\ iterations_run = [universe |-> 0, galaxy |-> 0, system |-> 0,
                         planet |-> 0]
    /\ layout_mode = [universe |-> "none", galaxy |-> "none",
                      system |-> "none", planet |-> "none"]
    /\ bundle = <<>>
    /\ pc = "layout"
    /\ tier_idx = 1
    /\ runs = 1
    /\ \E initial \in [ForceNodes -> ForcePoints], order \in ForceOrders,
          adjacency \in ForceAdjacencies, c \in ForceParents :
           force_loop = [pass |-> "loop", cursor |-> 1, iteration |-> 0,
                         iterations |-> MaxIterations, order |-> order,
                         positions |-> initial, start |-> initial,
                         forces |-> [nid \in ForceNodes |-> <<0, 0>>],
                         adjacency |-> adjacency,
                         tier_name |-> "galaxy",
                         parent_positions |-> c.parent_positions,
                         parent_map |-> c.parent_map]

NextForce ==
    \/ start_iteration
    \/ repulsion_pass
    \/ attraction_pass
    \/ gravity_pass
    \/ apply_forces
    \/ finish_loop

SpecForce == InitForce /\ [][NextForce]_vars

(***************************************************************************)
(* The force layout of one tier from its initialisation (lines 362-385)    *)
(* on.  cos and sin of the angle i * 2.39996 are tabulated in thousandths  *)
(* for the first three indices.                                            *)
(***************************************************************************)
GoldenDirections == <<<<1000, 0>>, <<-737, 675>>, <<87, -996>>>>

\* centre + radius * (cos(angle), sin(angle)) for index i
SpiralPoint(centre, radius, i) ==
    <<centre[1] + Quot(radius * GoldenDirections[i + 1][1], 1000),
      centre[2] + Quot(radius * GoldenDirections[i + 1][2], 1000)>>

\* lines 374-375
AnchoredRadius(n, i) == 200 + (n \div 10) + (i % 20) * 15

\* lines 383-384
OriginRadius(tier_name, n, i) ==
    LET base_spread == IF tier_name \in {"universe", "galaxy"} THEN 500
                       ELSE 300
    IN  ISqrt((base_spread * base_spread * (i + 1)) \div Max(n, 1))

\* lines 363-385: the position of the i-th node of n
InitialPoint(tier_name, n, i, node_id, parent_positions, parent_map) ==
    LET a == Anchor(node_id, parent_positions, parent_map)
    IN  IF a # <<>>
        THEN SpiralPoint(parent_positions[1][a[1]], AnchoredRadius(n, i), i)
        ELSE SpiralPoint(<<0, 0>>, OriginRadius(tier_name, n, i), i)

\* lines 362-385
initialize_positions ==
    /\ force_loop.pass = "init"
    /\ LET order == force_loop.order
           placed == [nid \in {order[k] : k \in 1..Len(order)} |->
                        LET i == (CHOOSE k \in 1..Len(order) : order[k] = nid) - 1
                        IN  InitialPoint(force_loop.tier_name, Len(order), i,
                                         nid, force_loop.parent_positions,
                                         force_loop.parent_map)]
       IN  force_loop' = [force_loop EXCEPT !.positions = placed,
                                            !.start = placed,
                                            !.pass = "loop"]
    /\ UNCHANGED exporterVars

\* the arguments compute_positions can pass: none for the universe tier;
\* for another tier the positions of the coarser tier, which may be empty,
\* and the parent map, which may be empty, may name a positioned parent
\* and may name a parent without position
AnchorParents ==
    {[tier_name |-> "universe", parent_positions |-> <<>>, parent_map |-> <<>>],
     [tier_name |-> "galaxy",
      parent_positions |-> <<("p" :> <<12000, -16000>>)>>,
      parent_map |-> <<("a" :> "p") @@ ("b" :> "ghost")>>],
     [tier_name |-> "system", parent_positions |-> <<EmptyDict>>,
      parent_map |-> <<("a" :> "p")>>],
     [tier_name |-> "planet",
      parent_positions |-> <<("p" :> <<12000, -16000>>) @@ ("q" :> <<-50, 70>>)>>,
      parent_map |-> <<EmptyDict>>],
     [tier_name |-> "planet",
      parent_positions |-> <<("p" :> <<12000, -16000>>) @@ ("q" :> <<-50, 70>>)>>,
      parent_map |-> <<("a" :> "p") @@ ("b" :> "q") @@ ("c" :> "p")>>]}

InitAnchor ==
    /\ chunks = <<>>
    /\ relationships = <<>>
    /\ tiers = [universe |-> <<>>, galaxy |-> <<>>, system |-> <<>>,
                planet |-> <<>>]
    /\ positions = [universe |-> EmptyDict, galaxy |-> EmptyDict,
                    system |-> EmptyDict, planet |-> EmptyDict]
    /\ parent_maps = [galaxy |-> EmptyDict, system |-> EmptyDict,
                      planet |-> EmptyDict]
    /\ dir_to_chunks = <<>>
    /\ file_to_chunks = <<>>
    /\ iterations_run = [universe |-> 0, galaxy |-> 0, system |-> 0,
                         planet |-> 0]
    /\ layout_mode = [universe |-> "none", galaxy |-> "none",
                      system |-> "none", planet |-> "none"]
    /\ bundle = <<>>
    /\ pc = "layout"
    /\ tier_idx = 1
    /\ runs = 1
    /\ \E order \in ForceOrders, adjacency \in ForceAdjacencies,
          c \in AnchorParents :
           force_loop = [pass |-> "init", cursor |-> 1, iteration |-> 0,
                         iterations |-> MaxIterations, order |-> order,
                         positions |-> EmptyDict, start |-> EmptyDict,
                         forces |-> [nid \in ForceNodes |-> <<0, 0>>],
                         adjacency |-> adjacency,
                         tier_name |-> c.tier_name,
                         parent_positions |-> c.parent_positions,
                         parent_map |-> c.parent_map]

NextAnchor ==
    \/ initialize_positions
    \/ start_iteration
    \/ repulsion_pass
    \/ attraction_pass
    \/ gravity_pass
    \/ apply_forces
    \/ finish_loop

SpecAnchor == InitAnchor /\ [][NextAnchor]_vars

(***************************************************************************)
(* Inputs for name resolution: one chunk per export, in each shape (the    *)
(* chunker's, with chunk_id and node_type; the mock's, with node_id and    *)
(* kind; and one with no kind attribute), with and without an identifier,  *)
(* a name, a qualified route, exports and imports.                         *)
(***************************************************************************)
NameChunk(shape, kind, id, name, route, metadata, file_path) ==
    [chunk_id |-> IF shape = "ts" THEN id ELSE "",
     node_id |-> IF shape = "ts" THEN "" ELSE id,
     node_type |-> IF shape = "ts" THEN <<kind>> ELSE <<>>,
     kind |-> IF shape = "mock" THEN <<kind>> ELSE <<>>,
     file_path |-> file_path, parent_id |-> "", metadata |-> metadata,
     name |-> name, qualified_route |-> route]

NameShapes ==
    {<<"ts", "import_statement">>, <<"ts", "export_statement">>,
     <<"ts", "class_definition">>, <<"mock", "import_statement">>,
     <<"bare", "">>}

NameIds == {"n1", "mod:leaf", "x:anon@9", ""}

NameValues == {"", "anon@7", "Foo"}

NameRoutes ==
    {<<>>, <<"class_definition:Foo">>,
     <<"module:Outer", "function_definition:anon@3">>, <<"bare">>}

NameMetadata ==
    {EmptyDict, [exports |-> <<"Bar">>], [exports |-> <<"anon@1">>],
     [exports |-> <<>>, imports |-> <<"pkg/util">>], [parent_id |-> "p"]}

NameFiles == {"src/x.py", "Makefile", "src/.env"}

NameChunks ==
    {NameChunk(sh[1], sh[2], id, name, route, metadata, file_path) :
        sh \in NameShapes, id \in NameIds, name \in NameValues,
        route \in NameRoutes, metadata \in NameMetadata,
        file_path \in NameFiles}

InitNames == \E c \in NameChunks : Constructed(<<c>>, <<>>)

SpecNames == InitNames /\ [][NextLarge]_vars

(***************************************************************************)
(* Inputs for the directory key: one chunk per export, a module or a       *)
(* method, with file paths of none to four directory segments, hidden and  *)
(* empty segments among them.                                              *)
(***************************************************************************)
DirPaths ==
    {"f.py", "a/f.py", "a/b/f.py", "a/b/c/f.py", "a/b/c/d/f.py", "/a/f.py",
     "a//b/f.py", ".git/f.py", "a/.h/f.py", ".h/a/b/c/f.py", "./a/f.py",
     "../a/b/f.py", "a/b/", "", "/", "a/.b/c/.d/e/f.py", "a/b/.f",
     "x/.h/y/z/b.py"}

DirChunks ==
    {WithId(TsChunk(node_type, file_path, "", EmptyDict), 1) :
        node_type \in {"module", "method"}, file_path \in DirPaths}

InitDirs == \E c \in DirChunks : Constructed(<<c>>, <<>>)

SpecDirs == InitDirs /\ [][NextLarge]_vars

(***************************************************************************)
(* Properties.                                                             *)
(***************************************************************************)
RefsIn(t) == {tiers[t][i] : i \in 1..Len(tiers[t])}

\* build_tiers has run at least once on this exporter
TiersBuilt == runs >= 1

\* build_parent_maps has run after the latest build_tiers
ParentsBuilt == pc \in {"layout", "serialize"} \/ (pc = "idle" /\ runs >= 1)

\* the kind string a chunk carries: node_type when it has that attribute,
\* else kind, "" when it carries none or an empty one
KindString(c) ==
    IF c.node_type # <<>> THEN c.node_type[1]
    ELSE IF c.kind # <<>> THEN c.kind[1]
    ELSE ""

TableTier(k) ==
    IF k = "" THEN "planet"
    ELSE IF Lower(k) \in GalaxyKinds THEN "galaxy"
    ELSE IF Lower(k) \in SystemKinds THEN "system"
    ELSE "planet"

(* C1: after build_tiers every input node is in exactly one of galaxy,     *)
(* system and planet, namely the tier the KIND_TO_TIER table gives for its *)
(* kind string compared case-insensitively; an absent, empty or unlisted   *)
(* kind is placed in planet.                                               *)
C1_TierByKind ==
    TiersBuilt =>
        \A r \in 1..Len(chunks) : \A t \in ChunkTiers :
            (r \in RefsIn(t)) <=> (t = TableTier(KindString(chunks[r])))

C1_Witness ==
    /\ pc = "parents"
    /\ \E r \in RefsIn("galaxy") : chunks[r].kind = <<"MODULE">>
    /\ \E r \in RefsIn("planet") :
           chunks[r].kind = <<>> /\ chunks[r].node_type = <<>>
    /\ \E r \in RefsIn("planet") : chunks[r].node_type = <<"">>

DirKeysOfInput == {DirKey(chunks[r]) : r \in 1..Len(chunks)}

Universe == tiers["universe"]

(* C2: after build_tiers on a new exporter the universe tier holds exactly *)
(* one aggregate `dir:<key>` per distinct directory key of the input, none *)
(* for another key, and each node_count is the number of input nodes with  *)
(* that key.                                                               *)
C2_OneAggregatePerKey ==
    runs = 1 =>
        /\ Len(Universe) = Cardinality(DirKeysOfInput)
        /\ {Universe[i].node_id : i \in 1..Len(Universe)}
               = {"dir:" \o k : k \in DirKeysOfInput}
        /\ \A i \in 1..Len(Universe) :
               Universe[i].node_count =
                   Cardinality({r \in 1..Len(chunks) :
                       "dir:" \o DirKey(chunks[r]) = Universe[i].node_id})

C2_Witness ==
    /\ runs = 1
    /\ pc = "parents"
    /\ Len(Universe) >= 2
    /\ \E i \in 1..Len(Universe) :
           Universe[i].node_count = 2 /\ Cardinality(Universe[i].member_files) = 1

(* C3: a second build_tiers on the same exporter and input leaves the      *)
(* universe tier with the same aggregates (same member_files and           *)
(* node_count, none duplicated) as the first left.                         *)
C3_AggregationIdempotent ==
    [][(runs = 1 /\ runs' = 2) =>
          /\ Len(tiers'["universe"]) = Len(tiers["universe"])
          /\ {tiers'["universe"][i] : i \in 1..Len(tiers'["universe"])}
                 = {tiers["universe"][i] : i \in 1..Len(tiers["universe"])}]_vars

IdsIn(t) ==
    IF t = "universe" THEN {Universe[i].node_id : i \in 1..Len(Universe)}
    ELSE {ChunkId(r) : r \in RefsIn(t)}

Coarser(t) ==
    CASE t = "galaxy" -> "universe"
      [] t = "system" -> "galaxy"
      [] t = "planet" -> "system"

(* C4: after build_parent_maps every entry of the galaxy, system and       *)
(* planet parent maps has as value the id of a node of the next-coarser    *)
(* tier; a reference to an id absent from that tier is not recorded.       *)
C4_ParentsExistOneLevelUp ==
    (ParentsBuilt /\ runs = 1) =>
        \A t \in ChunkTiers : \A id \in DOMAIN parent_maps[t] :
            parent_maps[t][id] \in IdsIn(Coarser(t))

(* C5: every galaxy node has a galaxy parent-map entry `dir:<k>`, k its    *)
(* own directory key, and an aggregate with that id is in the universe.    *)
C5_GalaxyParentIsOwnDirectory ==
    ParentsBuilt =>
        \A r \in RefsIn("galaxy") :
            /\ ChunkId(r) \in DOMAIN parent_maps["galaxy"]
            /\ parent_maps["galaxy"][ChunkId(r)] = "dir:" \o DirKey(chunks[r])
            /\ parent_maps["galaxy"][ChunkId(r)] \in IdsIn("universe")

C5_Witness ==
    /\ ParentsBuilt
    /\ \E r1, r2 \in RefsIn("galaxy") :
           /\ parent_maps["galaxy"][ChunkId(r1)] = "dir:a"
           /\ parent_maps["galaxy"][ChunkId(r2)] = "dir:y/z"

\* the galaxy nodes of a file, in input order
GalaxyOfFile(file_path) ==
    SelectSeq(tiers["galaxy"], LAMBDA r : chunks[r].file_path = file_path)

(* C6 as claimed: a system node whose file has galaxy nodes has as parent  *)
(* the first of them in input order; one whose file has none has no entry. *)
C6_SystemParentIsFirstModule ==
    ParentsBuilt =>
        \A r \in RefsIn("system") :
            LET mods == GalaxyOfFile(chunks[r].file_path)
            IN  IF Len(mods) = 0
                THEN ChunkId(r) \notin DOMAIN parent_maps["system"]
                ELSE /\ ChunkId(r) \in DOMAIN parent_maps["system"]
                     /\ parent_maps["system"][ChunkId(r)] = ChunkId(mods[1])

(* C6 as amended: a system node whose file has galaxy nodes has as parent  *)
(* the last of them in input order; one whose file has none has no entry.  *)
C6_SystemParentIsLastModule ==
    ParentsBuilt =>
        \A r \in RefsIn("system") :
            LET mods == GalaxyOfFile(chunks[r].file_path)
            IN  IF Len(mods) = 0
                THEN ChunkId(r) \notin DOMAIN parent_maps["system"]
                ELSE /\ ChunkId(r) \in DOMAIN parent_maps["system"]
                     /\ parent_maps["system"][ChunkId(r)]
                            = ChunkId(mods[Len(mods)])

C6_Witness ==
    /\ ParentsBuilt
    /\ \E r \in RefsIn("system") :
           LET mods == GalaxyOfFile(chunks[r].file_path)
           IN  /\ Len(mods) >= 2
               /\ ChunkId(mods[1]) # ChunkId(mods[Len(mods)])
               /\ parent_maps["system"][ChunkId(r)] = ChunkId(mods[Len(mods)])

\* the parent a planet chunk names: the parent_id attribute, else the
\* parent_id entry of its metadata, "" when neither is present and non-empty
NamedParent(c) ==
    IF c.parent_id # "" THEN c.parent_id
    ELSE IF "parent_id" \in DOMAIN c.metadata THEN c.metadata["parent_id"]
    ELSE ""

(* C7: a planet node's parent-map entry is its parent_id attribute when    *)
(* present and non-empty, else the parent_id entry of its metadata when    *)
(* present and non-empty, else it has no entry; the file path plays no     *)
(* part.                                                                   *)
C7_PlanetParentFromReference ==
    ParentsBuilt =>
        \A r \in RefsIn("planet") :
            IF NamedParent(chunks[r]) = ""
            THEN ChunkId(r) \notin DOMAIN parent_maps["planet"]
            ELSE /\ ChunkId(r) \in DOMAIN parent_maps["planet"]
                 /\ parent_maps["planet"][ChunkId(r)] = NamedParent(chunks[r])

C7_Witness ==
    /\ ParentsBuilt
    /\ \E r \in RefsIn("planet") :
           /\ chunks[r].parent_id = "n1"
           /\ NamedParent(chunks[r]) = "n1"
           /\ MetaGet(chunks[r].metadata, "parent_id") = "n2"
           /\ ChunkId(r) \in DOMAIN parent_maps["planet"]
    /\ \E r \in RefsIn("planet") :
           /\ chunks[r].parent_id = ""
           /\ NamedParent(chunks[r]) = "ghost"
           /\ ChunkId(r) \in DOMAIN parent_maps["planet"]
    /\ \E r \in RefsIn("planet") : ChunkId(r) \notin DOMAIN parent_maps["planet"]

\* the layout of tier TierNames[idx] has run in the current export
LaidOut(idx) ==
    \/ pc = "serialize"
    \/ pc = "layout" /\ tier_idx > idx
    \/ pc = "idle" /\ runs > 0

(***************************************************************************)
(* C8: once a non-empty tier is laid out, by the force simulation or by    *)
(* the parent-anchored clustering, the keys of its position map are        *)
(* exactly the node ids of the tier: every node has one position and no    *)
(* other id has one.                                                       *)
(***************************************************************************)
C8_PositionsCoverTier ==
    \A idx \in 1..4 :
        LET t == TierNames[idx]
        IN  (LaidOut(idx) /\ tiers[t] # <<>>) =>
                /\ layout_mode[t] \in {"force", "anchored"}
                /\ DOMAIN positions[t] =
                       {NodeId(t, tiers[t][i]) : i \in 1..Len(tiers[t])}

\* both strategies have run in one export, the clustering on a tier that has
\* nodes with a parent entry and nodes without
C8_Witness ==
    /\ pc = "serialize"
    /\ layout_mode["galaxy"] = "force"
    /\ layout_mode["system"] = "anchored"
    /\ \E r \in RefsIn("system") : ChunkId(r) \in DOMAIN parent_maps["system"]
    /\ \E r \in RefsIn("system") :
           /\ ChunkId(r) \notin DOMAIN parent_maps["system"]
           /\ ChunkId(r) \in DOMAIN positions["system"]

\* the input edges as the bundle writes them, in input order
InputEdges ==
    [i \in 1..Len(relationships) |->
        [src |-> _get_rel_source_id(relationships[i]),
         dst |-> _get_rel_target_id(relationships[i]),
         kind |-> _get_rel_kind(relationships[i])]]

EmittedIds(block) == {block.nodes[i].node_id : i \in 1..Len(block.nodes)}

(* C9: in the written bundle the edge list of each tier is exactly the     *)
(* input edges, in input order, whose source and target are both ids of    *)
(* nodes emitted in that tier.                                             *)
C9_EdgesWithinTier ==
    bundle # <<>> =>
        \A t \in {"universe", "galaxy", "system", "planet"} :
            bundle[1][t].edges =
                SelectSeq(InputEdges,
                    LAMBDA e : /\ e.src \in EmittedIds(bundle[1][t])
                               /\ e.dst \in EmittedIds(bundle[1][t]))

C9_Witness ==
    /\ bundle # <<>>
    /\ Len(bundle[1]["galaxy"].edges) = 3
    /\ Len(bundle[1]["system"].edges) = 0
    /\ Len(bundle[1]["planet"].edges) = 0
    /\ Len(chunks) = 3

(***************************************************************************)
(* C10: the layout of a tier of n nodes with nominal iteration count N     *)
(* (100 for universe, 50 for galaxy and system, 25 for planet) runs no     *)
(* force iteration when n > 20000, max(10, N div 4) iterations when        *)
(* 10000 < n <= 20000 and N iterations when 0 < n <= 10000, whatever the   *)
(* populations of the other tiers.                                         *)
(***************************************************************************)
C10_IterationsByPopulation ==
    \A idx \in 1..4 :
        LET t == TierNames[idx]
            n == Len(tiers[t])
            N == <<100, 50, 50, 25>>[idx]
        IN  (LaidOut(idx) /\ n > 0) =>
                iterations_run[t] =
                    IF n > 20000 THEN 0
                    ELSE IF n > 10000
                    THEN (IF N \div 4 > 10 THEN N \div 4 ELSE 10)
                    ELSE N

\* one export in which the galaxy tier ran reduced above the floor, the
\* system tier ran no iteration and the planet tier ran its full count
C10_Witness ==
    /\ pc = "serialize"
    /\ Len(tiers["galaxy"]) = 10001 /\ iterations_run["galaxy"] = 12
    /\ Len(tiers["system"]) = 20001 /\ iterations_run["system"] = 0
    /\ Len(tiers["planet"]) = 3 /\ iterations_run["planet"] = 25
    /\ iterations_run["universe"] = 100

(***************************************************************************)
(* Name resolution as the bundle shows it: P(c, name) for every chunk c    *)
(* and the name written for it.                                            *)
(***************************************************************************)
EveryName(P(_, _)) ==
    bundle # <<>> =>
        \A t \in ChunkTiers : \A i \in 1..Len(bundle[1][t].nodes) :
            P(chunks[tiers[t][i]], bundle[1][t].nodes[i].name)

Usable(s) == s # "" /\ ~StartsWith(s, "anon@")

\* the last `:`-segments of the route entries of the form <kind>:<name>,
\* innermost entry first
RouteCandidates(c) ==
    LET n == Len(c.qualified_route)
        rev == [i \in 1..n |-> c.qualified_route[n + 1 - i]]
        formed == SelectSeq(rev, LAMBDA e : Contains(e, ":"))
    IN  [i \in 1..Len(formed) |-> Last(Split(formed[i], ":"))]

FirstExport(c) ==
    IF "exports" \in DOMAIN c.metadata /\ c.metadata["exports"] # <<>>
    THEN c.metadata["exports"][1] ELSE ""

FirstImport(c) ==
    IF "imports" \in DOMAIN c.metadata /\ c.metadata["imports"] # <<>>
    THEN Last(Split(c.metadata["imports"][1], "/")) ELSE ""

BaseName(c) ==
    LET file_name == Last(Split(c.file_path, "/"))
        parts == Split(file_name, ".")
    IN  IF Len(parts) = 1 THEN file_name
        ELSE Join(SubSeq(parts, 1, Len(parts) - 1), ".")

Glyphed(c) ==
    IF ~Usable(BaseName(c)) THEN ""
    ELSE IF HasSubstring(Lower(KindString(c)), "import")
    THEN "{U+2B07}" \o BaseName(c)
    ELSE IF HasSubstring(Lower(KindString(c)), "export")
    THEN "{U+2B06}" \o BaseName(c)
    ELSE BaseName(c)

Identifier(c) == IF c.chunk_id # "" THEN c.chunk_id ELSE c.node_id

IdSuffix(c) == Last(Split(Identifier(c), ":"))

\* steps (1) to (5) of the chain, in order
EarlierCandidates(c) ==
    <<c.name>> \o RouteCandidates(c)
        \o <<FirstExport(c), FirstImport(c), Glyphed(c)>>

ChainName(c) ==
    LET usable == SelectSeq(EarlierCandidates(c) \o <<IdSuffix(c)>>, Usable)
    IN  IF usable # <<>> THEN usable[1] ELSE "unnamed"

(* C13: the name written for a node is the first usable result of the      *)
(* chain name, `<kind>:<name>` route entries from the innermost outward,   *)
(* first export, first import cut to its last path segment, file base name *)
(* with glyph, identifier suffix, `unnamed`; usable means non-empty and    *)
(* not starting with `anon@`.                                              *)
C13_NameIsFirstUsable == EveryName(LAMBDA c, name : name = ChainName(c))

(* C14: no name written for a node begins with `anon@`.                    *)
C14_NameNeverAnonymous ==
    EveryName(LAMBDA c, name : ~StartsWith(name, "anon@"))

(* C15: a node with no usable name, no qualified route and no exports or   *)
(* imports is named by the base name of its file, with the import or       *)
(* export glyph in front when its kind says so, whether the kind is        *)
(* carried by `kind` or by `node_type`.                                    *)
C15_FileNameWithGlyph ==
    EveryName(LAMBDA c, name :
        (/\ ~Usable(c.name)
         /\ c.qualified_route = <<>>
         /\ FirstExport(c) = ""
         /\ FirstImport(c) = ""
         /\ Usable(BaseName(c)))
        => name = Glyphed(c))

(* C16: when steps (1) to (5) yield nothing usable, the name is `unnamed`  *)
(* for a node without identifier, else the part of the identifier after    *)
(* its last `:` (all of it when it has none).                              *)
C16_IdentifierOrUnnamed ==
    EveryName(LAMBDA c, name :
        SelectSeq(EarlierCandidates(c), Usable) = <<>>
        => name = IF Identifier(c) = "" THEN "unnamed" ELSE IdSuffix(c))

(* C17: no node without an identifier or without a kind is carried into a  *)
(* tier: such a node is rejected.                                          *)
C17_MissingFieldRejected ==
    TiersBuilt =>
        \A t \in ChunkTiers : \A r \in RefsIn(t) :
            Identifier(chunks[r]) # "" /\ KindString(chunks[r]) # ""

\* the directory segments of a path: its `/`-segments without the final
\* file name, without the empty ones and without the dot-prefixed ones
DirectorySegments(path) ==
    LET segments == Split(path, "/")
    IN  SelectSeq([i \in 1..(Len(segments) - 1) |-> segments[i]],
                  LAMBDA seg : seg # "" /\ SubSeq(seg, 1, 1) # ".")

\* the `/`-join of the last min(D, k) of the k directory segments, `root`
\* when there is none
KeyOfPath(path, D) ==
    LET segs == DirectorySegments(path)
        k == Len(segs)
        m == IF D < k THEN D ELSE k
    IN  IF k = 0 THEN "root"
        ELSE Join([i \in 1..m |-> segs[k - m + i]], "/")

(***************************************************************************)
(* C21: the directory key of a file path is the `/`-join of the last       *)
(* min(D, k) of its k directory segments, `root` when k = 0: for every     *)
(* depth D from 1 to MaxDepth applied to the path of an input node, and    *)
(* for the default depth 2 in the keys build_tiers groups the nodes by and *)
(* build_parent_maps names the aggregates with.                            *)
(***************************************************************************)
C21_DirectoryKey ==
    /\ \A r \in 1..Len(chunks) : \A D \in 1..MaxDepth :
           _extract_directory(chunks[r].file_path, D)
               = KeyOfPath(chunks[r].file_path, D)
    /\ TiersBuilt =>
           /\ DictKeys(dir_to_chunks)
                  = {KeyOfPath(chunks[r].file_path, 2) : r \in 1..Len(chunks)}
           /\ \A j \in 1..Len(dir_to_chunks) : \A i \in 1..Len(dir_to_chunks[j].val) :
                  KeyOfPath(chunks[dir_to_chunks[j].val[i]].file_path, 2)
                      = dir_to_chunks[j].key
    /\ ParentsBuilt =>
           \A r \in RefsIn("galaxy") :
               parent_maps["galaxy"][ChunkId(r)]
                   = "dir:" \o KeyOfPath(chunks[r].file_path, 2)

\* a module four directories deep, one of them hidden, keyed by the last two
\* of the three that count
C21_Witness ==
    /\ ParentsBuilt
    /\ \E r \in RefsIn("galaxy") :
           /\ chunks[r].file_path = "a/.b/c/.d/e/f.py"
           /\ parent_maps["galaxy"][ChunkId(r)] = "dir:c/e"
           /\ DictKeys(dir_to_chunks) = {"c/e"}

\* the tiers the latest layout placed by the parent-anchored clustering
Clustered ==
    {TierNames[idx] : idx \in {i \in 1..4 :
        LaidOut(i) /\ layout_mode[TierNames[i]] = "anchored"}}

\* the parent-map entry of a node of tier t, <<>> when it has none
ParentEntry(t, id) ==
    IF t # "universe" /\ id \in DOMAIN parent_maps[t]
    THEN <<parent_maps[t][id]>> ELSE <<>>

\* the parent of a node of tier t is resolved: it has an entry, and the
\* parent named has a position in the next-coarser tier
Resolved(t, id) ==
    /\ ParentEntry(t, id) # <<>>
    /\ ParentEntry(t, id)[1] \in DOMAIN positions[Coarser(t)]

OnGrid(p) == p.placed = "grid" /\ p.centre = "offset"

OnSpiralAround(p, kind, parent_id) ==
    p.placed = "cluster" /\ p.centre = kind /\ p.centre_id = parent_id

C23_InputUntouched ==
    [][/\ chunks' = chunks
       /\ relationships' = relationships]_vars

\* two exports of three nodes and five edges have written their bundles
C23_Witness ==
    /\ runs = 2
    /\ pc = "idle"
    /\ bundle # <<>>
    /\ Len(chunks) = 3
    /\ Len(relationships) = 5
    /\ \A t \in ChunkTiers : tiers[t] # <<>>

\* a step leaves the position map of every tier whose layout has run in
\* the current export as it is
FinishedMapsKept ==
    \A idx \in 1..4 :
        LaidOut(idx) => positions'[TierNames[idx]] = positions[TierNames[idx]]

\* the bundle just written holds, rounded, the positions of every tier
BundleHoldsFinishedMaps ==
    (pc = "idle" /\ bundle # <<>>) =>
        \A t \in DOMAIN positions :
            /\ DOMAIN bundle[1][t].positions = DOMAIN positions[t]
            /\ \A id \in DOMAIN positions[t] :
                   bundle[1][t].positions[id] = Rounded(positions[t][id])

(***************************************************************************)
(* C24: once the layout of a tier has run, no later step of the export     *)
(* changes the position map of that tier, neither the layout of a finer    *)
(* tier nor the serializer; the positions the bundle holds for a tier are  *)
(* the rounded positions its own layout finished with.                     *)
(***************************************************************************)
C24_FinishedMapsReadOnly ==
    []BundleHoldsFinishedMaps /\ [][FinishedMapsKept]_vars

\* a bundle is written whose four tiers have positions, the planet tier
\* anchored on the system tier and the system tier on the galaxy tier
C24_Witness ==
    /\ pc = "idle"
    /\ bundle # <<>>
    /\ \A t \in DOMAIN positions : DOMAIN bundle[1][t].positions # {}
    /\ \E id \in DOMAIN positions["planet"] :
           bundle[1]["planet"].positions[id].of.centre = "parent"
    /\ \E id \in DOMAIN positions["system"] :
           bundle[1]["system"].positions[id].of.centre = "parent"

\* the parent of node nid is resolved in the layout being stepped: the
\* parent map has an entry for it and the parent named has a position
LoopResolved(nid) ==
    /\ force_loop.parent_map # <<>>
    /\ nid \in DOMAIN force_loop.parent_map[1]
    /\ force_loop.parent_positions # <<>>
    /\ force_loop.parent_map[1][nid] \in DOMAIN force_loop.parent_positions[1]

\* the parent's position for a node with a resolved parent, else the origin
CentreOf(nid) ==
    IF LoopResolved(nid)
    THEN force_loop.parent_positions[1][force_loop.parent_map[1][nid]]
    ELSE <<0, 0>>

IndexOf(nid) ==
    (CHOOSE k \in 1..Len(force_loop.order) : force_loop.order[k] = nid) - 1

\* the force on nid from the positions P with gravity towards c
ForceToward(P, nid, c) ==
    LET others == DOMAIN P \ {nid}
        neighbors == force_loop.adjacency[nid] \cap DOMAIN P
        repelled == SumSet(others, [o \in others |->
                        Repulsion(P[nid], P[o],
                                  BaseRepel(Cardinality(DOMAIN P)))])
        attracted == SumSet(neighbors, [o \in neighbors |->
                        Attraction(P[nid], P[o])])
    IN  Add(Add(repelled, attracted),
            Gravity(P[nid], c, Truthy(force_loop.parent_positions)))

(***************************************************************************)
(* C25: in the force simulation the spiral a node is first placed on and   *)
(* the gravity that pulls it are centred on its parent's position exactly  *)
(* when its id has an entry in the parent map and the parent named has a   *)
(* position in the coarser tier; for every other node, in the universe     *)
(* tier, without entry or with a parent without position, both are centred *)
(* on the origin.                                                          *)
(***************************************************************************)
C25_AnchoredIffResolved ==
    LET loop == force_loop
        n == Len(loop.order)
    IN  /\ (loop.pass = "loop" /\ loop.iteration = 0) =>
               \A nid \in DOMAIN loop.positions :
                   loop.positions[nid] =
                       SpiralPoint(CentreOf(nid),
                                   IF LoopResolved(nid)
                                   THEN AnchoredRadius(n, IndexOf(nid))
                                   ELSE OriginRadius(loop.tier_name, n,
                                                     IndexOf(nid)),
                                   IndexOf(nid))
        /\ loop.pass = "apply" =>
               \A nid \in DOMAIN loop.positions :
                   loop.forces[nid] = ForceToward(loop.start, nid, CentreOf(nid))

\* the forces of the first iteration are complete for a tier in which a has
\* a positioned parent, b a parent without position and c no parent
C25_Witness ==
    /\ force_loop.pass = "apply"
    /\ force_loop.cursor = 1
    /\ force_loop.iteration = 0
    /\ LoopResolved("a")
    /\ force_loop.parent_map[1]["b"] = "ghost"
    /\ "c" \notin DOMAIN force_loop.parent_map[1]
    /\ force_loop.start["a"] # force_loop.start["b"]
    /\ \A nid \in ForceNodes : force_loop.forces[nid] # <<0, 0>>

\* B, B div 2, B div 2, B div 4
ClaimedNominal(B) == <<B, B \div 2, B \div 2, B \div 4>>

(***************************************************************************)
(* C26: the nominal iteration counts passed to the layouts are B for       *)
(* universe, B div 2 for galaxy, B div 2 for system and B div 4 for        *)
(* planet, non-increasing from coarsest to finest: for the default B = 100 *)
(* in the iterations a tier of at most 10000 nodes runs, and for every     *)
(* base count from 0 to MaxBase.                                           *)
(***************************************************************************)
C26_NominalCounts ==
    /\ \A idx \in 1..4 :
           (/\ LaidOut(idx)
            /\ Len(tiers[TierNames[idx]]) > 0
            /\ Len(tiers[TierNames[idx]]) <= 10000)
           => iterations_run[TierNames[idx]] = ClaimedNominal(100)[idx]
    /\ \A B \in (0..MaxBase) \cup {100} :
           /\ \A idx \in 1..4 :
                  NominalIterations(idx, B) = ClaimedNominal(B)[idx]
           /\ \A idx \in 1..3 :
                  NominalIterations(idx, B) >= NominalIterations(idx + 1, B)

\* the four tiers are laid out, each with nodes
C26_Witness ==
    /\ pc = "serialize"
    /\ \A t \in DOMAIN tiers : tiers[t] # <<>>
    /\ iterations_run =
           [universe |-> 100, galaxy |-> 50, system |-> 50, planet |-> 25]

Dist2(p, q) == (p[1] - q[1]) * (p[1] - q[1]) + (p[2] - q[2]) * (p[2] - q[2])

\* the cap of iteration `it` of I: 100 in the first, falling linearly, 0
\* at it = I
Cap(it, I) == (100 * (I - it)) \div I

\* node nid is moved from p to q in iteration `it` by the force f: by no
\* more than the cap, and by the cap, up to the rounding of the
\* coordinates, when the force exceeds it
MovedWithinCap(p, q, f, it, I) ==
    /\ Dist2(p, q) <= Cap(it, I) * Cap(it, I)
    /\ (f[1] * f[1] + f[2] * f[2] > (Cap(it, I) + 1) * (Cap(it, I) + 1)
        /\ Cap(it, I) >= 3)
       => Dist2(p, q) >= (Cap(it, I) - 3) * (Cap(it, I) - 3)

(***************************************************************************)
(* C27: the displacement cap is 100 in the first iteration, falls linearly *)
(* with the iteration index and is zero at the end of the budget of I      *)
(* iterations; in each iteration every node is moved by at most the cap of *)
(* that iteration, and by the cap when the force on it is larger.          *)
(***************************************************************************)
C27_DisplacementCapped ==
    LET loop == force_loop
        I == loop.iterations
        visited == {loop.order[i] : i \in 1..(loop.cursor - 1)}
    IN  /\ Cap(0, I) = 100 /\ Cap(I, I) = 0
        /\ \A it \in 1..I : Cap(it, I) < Cap(it - 1, I)
        /\ loop.pass = "apply" =>
               \A nid \in visited :
                   MovedWithinCap(loop.start[nid], loop.positions[nid],
                                  loop.forces[nid], loop.iteration, I)
        /\ (loop.pass \in {"loop", "done"} /\ loop.iteration > 0) =>
               \A nid \in DOMAIN loop.positions :
                   MovedWithinCap(loop.start[nid], loop.positions[nid],
                                  loop.forces[nid], loop.iteration - 1, I)

\* the loop has ended; in its last iteration a force larger than the cap
\* moved a node by the cap, which is below 100
C27_Witness ==
    /\ force_loop.pass = "done"
    /\ \E nid \in ForceNodes :
           LET f == force_loop.forces[nid]
               cap == Cap(force_loop.iterations - 1, force_loop.iterations)
           IN  /\ cap < 100
               /\ f[1] * f[1] + f[2] * f[2] > (cap + 1) * (cap + 1)
               /\ Dist2(force_loop.start[nid], force_loop.positions[nid])
                      >= (cap - 3) * (cap - 3)

RECURSIVE NodeCountSum(_)
NodeCountSum(aggregates) ==
    IF aggregates = <<>> THEN 0
    ELSE Head(aggregates).node_count + NodeCountSum(Tail(aggregates))

(***************************************************************************)
(* C28: after build_tiers on a new exporter the node_count values of the   *)
(* universe aggregates add up to the number of input nodes, and so do the  *)
(* sizes of the galaxy, system and planet tiers; every node of the         *)
(* universe tier is a synthetic directory aggregate, and every input node  *)
(* is in one of the other three tiers.                                     *)
(***************************************************************************)
C28_CountsAddUp ==
    runs = 1 =>
        /\ NodeCountSum(Universe) = Len(chunks)
        /\ Len(tiers["galaxy"]) + Len(tiers["system"]) + Len(tiers["planet"])
               = Len(chunks)
        /\ \A i \in 1..Len(Universe) :
               /\ Universe[i].is_aggregate
               /\ Universe[i].kind = "directory"
               /\ StartsWith(Universe[i].node_id, "dir:")
               /\ Universe[i].node_id \notin {ChunkId(r) : r \in 1..Len(chunks)}
        /\ RefsIn("galaxy") \cup RefsIn("system") \cup RefsIn("planet")
               = 1..Len(chunks)

\* three nodes, two in one directory and one without directory
C28_Witness ==
    /\ runs = 1
    /\ pc = "parents"
    /\ Len(chunks) = 3
    /\ \E i, j \in 1..Len(Universe) :
           /\ Universe[i].node_id = "dir:root" /\ Universe[i].node_count = 1
           /\ Universe[j].node_id = "dir:a" /\ Universe[j].node_count = 2

\* the order in which compute_positions is to lay the tiers out
LayoutOrder == <<"universe", "galaxy", "system", "planet">>

\* the stage export() is at: 0 build_tiers, 1 build_parent_maps, 2 to 5 the
\* layout of universe, galaxy, system and planet, 6 serialize
Stage == CASE pc = "idle" -> 0
           [] pc = "parents" -> 1
           [] pc = "layout" -> 1 + tier_idx
           [] pc = "serialize" -> 6

\* every position map that a layout about to start can read is complete
CoarserFinished ==
    \A k \in 3..5 :
        Stage = k => DOMAIN positions[LayoutOrder[k - 2]]
                        = IdsIn(LayoutOrder[k - 2])

\* a laid-out node is centred on its parent exactly when the finished
\* position map of the next-coarser tier holds that parent
AnchoredOnFinished ==
    \A idx \in 2..4 :
        LET t == LayoutOrder[idx]
        IN  LaidOut(idx) =>
                \A id \in DOMAIN positions[t] \cap DOMAIN parent_maps[t] :
                    IF parent_maps[t][id] \in DOMAIN positions[Coarser(t)]
                    THEN /\ positions[t][id].centre = "parent"
                         /\ positions[t][id].centre_id = parent_maps[t][id]
                    ELSE positions[t][id].centre # "parent"

\* a step moves export() to its next stage, and a layout step writes the
\* tier of its stage and no other
NextStage ==
    /\ Stage' = (Stage + 1) % 7
    /\ \A k \in 2..5 : Stage = k =>
           /\ layout_mode'[LayoutOrder[k - 1]] # "none"
           /\ \A t \in DOMAIN positions \ {LayoutOrder[k - 1]} :
                  positions'[t] = positions[t] /\ layout_mode'[t] = layout_mode[t]
    /\ Stage \notin 2..5 => positions' = positions

(***************************************************************************)
(* C11: the stages of an export run in the order build_tiers,              *)
(* build_parent_maps, layout of universe, galaxy, system, planet,          *)
(* serialize; when the layout of a tier starts the position map of the     *)
(* next-coarser tier is completely written, and it is that finished map    *)
(* the layout anchors its nodes on.                                        *)
(***************************************************************************)
C11_StagesInOrder ==
    [](CoarserFinished /\ AnchoredOnFinished) /\ [][NextStage]_vars

C11_Witness ==
    /\ pc = "serialize"
    /\ \A t \in ChunkTiers :
           \E id \in DOMAIN positions[t] : positions[t][id].centre = "parent"

\* the force on node nid when every contribution is taken from the positions
\* P, summed over the other nodes and over the neighbours as sets
ForceFrom(P, nid) ==
    LET others == DOMAIN P \ {nid}
        neighbors == force_loop.adjacency[nid] \cap DOMAIN P
        repelled == SumSet(others, [o \in others |->
                        Repulsion(P[nid], P[o],
                                  BaseRepel(Cardinality(DOMAIN P)))])
        attracted == SumSet(neighbors, [o \in neighbors |->
                        Attraction(P[nid], P[o])])
    IN  Add(Add(repelled, attracted),
            Gravity(P[nid],
                    GravityCentre(nid, force_loop.parent_positions,
                                  force_loop.parent_map),
                    Truthy(force_loop.parent_positions)))

\* where iteration number `it` puts node nid, from the positions P at its
\* start
StepFrom(P, nid, it) ==
    Displaced(P[nid], ForceFrom(P, nid), it, force_loop.iterations)

(***************************************************************************)
(* C12: while the forces of an iteration are being accumulated every       *)
(* position is the one held at the start of the iteration; a position is   *)
(* written only in the final pass, and a node is then moved by the force   *)
(* that the start-of-iteration positions give, summed without regard to    *)
(* order: the positions after the iteration are the same for every order   *)
(* of the nodes.                                                           *)
(***************************************************************************)
C12_ForcesFromStartOfStep ==
    LET loop == force_loop
        visited == {loop.order[i] : i \in 1..(loop.cursor - 1)}
    IN  /\ loop.pass \in {"repulsion", "attraction", "gravity"} =>
               loop.positions = loop.start
        /\ loop.pass = "apply" =>
               \A nid \in DOMAIN loop.positions :
                   loop.positions[nid] =
                       IF nid \in visited
                       THEN StepFrom(loop.start, nid, loop.iteration)
                       ELSE loop.start[nid]
        /\ (loop.pass \in {"loop", "done"} /\ loop.iteration > 0) =>
               \A nid \in DOMAIN loop.positions :
                   loop.positions[nid] =
                       StepFrom(loop.start, nid, loop.iteration - 1)

\* an iteration has moved the first node it visits, here the last one
\* inserted, while the others still wait to be moved; the nodes repel and
\* attract each other
C12_Witness ==
    /\ force_loop.pass = "apply"
    /\ force_loop.cursor = 2
    /\ force_loop.order = <<"c", "a", "b">>
    /\ force_loop.positions["c"] # force_loop.start["c"]
    /\ force_loop.adjacency["c"] = {"a", "b"}
    /\ \A nid \in ForceNodes : force_loop.forces[nid] # <<0, 0>>

(* C18: the output file holds a complete bundle, with version, meta and    *)
(* the four tiers, or it is not written at all, also when a step of the    *)
(* export fails.                                                           *)
C18_NoPartialBundle ==
    bundle # <<>> =>
        DOMAIN bundle[1]
            = {"version", "meta", "universe", "galaxy", "system", "planet"}

(***************************************************************************)
(* C19: the layout of a tier without nodes is skipped: no force or         *)
(* clustering step runs, its position map stays empty, and the tiers after *)
(* it are laid out all the same.                                           *)
(***************************************************************************)
C19_EmptyTierSkipped ==
    \A idx \in 1..4 :
        LET t == LayoutOrder[idx]
        IN  LaidOut(idx) =>
                IF tiers[t] = <<>>
                THEN /\ layout_mode[t] = "skipped"
                     /\ iterations_run[t] = 0
                     /\ positions[t] = EmptyDict
                ELSE /\ layout_mode[t] \in {"force", "anchored"}
                     /\ DOMAIN positions[t] # {}

C19_Witness ==
    /\ pc = "serialize"
    /\ tiers["galaxy"] = <<>> /\ layout_mode["galaxy"] = "skipped"
    /\ tiers["system"] # <<>> /\ layout_mode["system"] = "force"
    /\ tiers["planet"] # <<>> /\ DOMAIN positions["planet"] # {}

(***************************************************************************)
(* C20: in the written bundle total_nodes and total_edges are the numbers  *)
(* of input nodes and input edges, meta.tiers lists universe, galaxy,      *)
(* system, planet in that order, and tier_counts of each tier is the       *)
(* length of the node list of that tier's block.                           *)
(***************************************************************************)
C20_MetaCounts ==
    bundle # <<>> =>
        LET meta == bundle[1].meta
        IN  /\ meta.total_nodes = Len(chunks)
            /\ meta.total_edges = Len(relationships)
            /\ meta.tiers = <<"universe", "galaxy", "system", "planet">>
            /\ DOMAIN meta.tier_counts
                   = {"universe", "galaxy", "system", "planet"}
            /\ \A t \in DOMAIN meta.tier_counts :
                   meta.tier_counts[t] = Len(bundle[1][t].nodes)

C20_Witness ==
    /\ bundle # <<>>
    /\ bundle[1].meta.total_nodes = 3
    /\ bundle[1].meta.total_edges = 5
    /\ bundle[1].meta.tier_counts["universe"] = 2
    /\ bundle[1].meta.tier_counts["planet"] = 2
    /\ bundle[1].meta.tier_counts["galaxy"] = 1

=============================================================================
